---- MODULE Spec2Model ----
(***************************************************************************)
(* A model of the axis resampler (cyntheria/axis).                         *)
(*                                                                         *)
(* The sub-systems are modelled each with its own specification:           *)
(*   SpecTimeline  the render timeline builder of resampler::resample      *)
(*   SpecParse     the argument parsers of util.rs and flags.rs            *)
(*   SpecCache     the analysis sidecar cache of resampler::resample       *)
(*   SpecRace      two concurrent renders sharing one sidecar              *)
(*   SpecRun       one invocation: main::run and the stages of resample    *)
(*   SpecSignal    VoicingHmm::smooth_f0 and audio::write_wav              *)
(*   SpecSynth     StydlEngine::synthesize, two engines side by side       *)
(*   SpecFrames    the per-frame functions of the analysis and the render  *)
(*                                                                         *)
(* Times are f64 in the program.  Here a time is an exact rational         *)
(* <<n, d>> (d > 0) of milliseconds, and a timeline position is an exact   *)
(* rational of frames; f64 rounding error is not modelled.                 *)
(***************************************************************************)
EXTENDS Integers, Sequences, FiniteSets, TLC

VARIABLES
    \* ---- render timeline (resampler.rs:106-143)
    tl_pc,            \* "args" | "built" | "done" | "panic" | "idle"
    args,             \* note parameters: offset, consonant, length, cutoff, velocity
    input_len,        \* number of input samples
    sample_rate,      \* sample rate of the input
    overflow_checks,  \* build profile: TRUE = arithmetic overflow panics (debug)
    f0_len,           \* features.f0.len()
    t_consonant,      \* consonant segment, milliseconds
    t_stretch,        \* sustain segment, milliseconds
    branch,           \* "truncate" | "stretch": how the sustain segment was built
    t_render,         \* render timeline, frames
    interp,           \* per render frame <<idx0, idx1>>
    \* ---- parsers (util.rs, flags.rs)
    p_pc,             \* "input" | "done" | "idle"
    p_fn,             \* which parser is applied
    p_in,             \* the input string, a sequence of characters
    p_out,            \* the parser's result
    \* ---- analysis cache (resampler.rs:59-104), one render per process
    source,           \* the samples the source file holds now
    sidecar,          \* the sidecar file: [exists, words]
    r_pc,             \* per render: position in resample
    r_samples,        \* per render: the samples main loaded
    r_cached,         \* per render: analysis_path.exists() was true
    r_buf,            \* per render: the words read from the sidecar
    r_features,       \* per render: the features in use
    r_analysed,       \* per render: the analysers run
    r_wrote,          \* per render: the sidecar was created and written
    \* ---- one invocation (main.rs:109-124, resampler.rs:40-212)
    m_pc,             \* position in run / resample
    m_k,              \* the plugin whose hook is called next
    m_plugins,        \* the number of active plugins
    m_flags,          \* [gender, breathiness]
    m_trace,          \* the stages and hooks that have run, in order
    m_result,         \* the outcome of the invocation
    m_spec,           \* spec_render / spec_p
    m_ap,             \* ap_render / ap_p
    m_hook_spec,      \* spec_p as the feature hooks left it
    m_hook_ap,        \* ap_p as the feature hooks left it
    m_syn_spec,       \* the envelope rows StydlEngine::synthesize was given
    m_syn_ap,         \* the aperiodicity rows StydlEngine::synthesize was given
    m_buf,            \* syn: the operations applied to the synthesized samples
    m_buf_pre,        \* syn as it was when apply_vocal_enhancement was entered
    m_coeff_failed,   \* a make_coefficients call of the enhancement failed
    out_file,         \* the output file: [creates, state]
    \* ---- smooth_f0 (hmm.rs) and write_wav (audio.rs) on their own
    g_pc,             \* "input" | "done" | "idle"
    g_fn,             \* which function is applied
    g_f0,             \* f0_raw, Hz
    g_voicing,        \* the state path decode returned to smooth_f0
    g_smoothed,       \* the value smooth_f0 returned
    g_samples,        \* the samples handed to write_wav
    g_file,           \* the file write_wav left
    \* ---- StydlEngine::new and synthesize (vocoder/synthesis.rs), two engines
    y_pc,             \* "new" | "frame" | "sample" | "normalise" | "done" | "idle"
    y_f0,             \* the f0 slice both engines are given, Hz
    y_f_idx,          \* f_idx, the frame pair being rendered
    y_t,              \* t, the next sample of the pair
    y_phases,         \* per engine: harmonic_phases, in units of 1/PhaseUnit turn
    y_w,              \* last sample: voicing_weight, in 1/HOP_SIZE
    y_nh,             \* last sample: the number of harmonics summed into sample_voiced
    y_samples,        \* the number of samples written so far
    y_advanced,       \* some accumulator has been advanced since construction
    \* ---- per-frame functions of the analysis and of the render, on their own
    x_pc,             \* "input" | "done" | "idle"
    x_fn,             \* which function is applied
    x_in,             \* its input
    x_out             \* its result

tlVars == <<tl_pc, args, input_len, sample_rate, overflow_checks, f0_len,
           t_consonant, t_stretch, branch, t_render, interp>>
parseVars == <<p_pc, p_fn, p_in, p_out>>
cacheVars == <<source, sidecar, r_pc, r_samples, r_cached, r_buf, r_features, r_analysed, r_wrote>>
runVars == <<m_pc, m_k, m_plugins, m_flags, m_trace, m_result, m_spec, m_ap, m_hook_spec,
            m_hook_ap, m_syn_spec, m_syn_ap, m_buf, m_buf_pre, m_coeff_failed, out_file>>
sigVars == <<g_pc, g_fn, g_f0, g_voicing, g_smoothed, g_samples, g_file>>
synVars == <<y_pc, y_f0, y_f_idx, y_t, y_phases, y_w, y_nh, y_samples, y_advanced>>
fnVars == <<x_pc, x_fn, x_in, x_out>>
laterVars == <<runVars, sigVars, synVars, fnVars>>
vars == <<tlVars, parseVars, cacheVars, laterVars>>

-----------------------------------------------------------------------------
(* Bounds of the model *)

\* the number of renders (invocations) of one source file
MaxRenders == 2

\* the longest analysed input, in pitch-estimator chunks
MaxFrames == 10

-----------------------------------------------------------------------------
(* Exact rationals <<n, d>>, d > 0 *)

Rat(n, d) == <<n, d>>
RLeq(a, b) == a[1] * b[2] <= b[1] * a[2]
RLt(a, b) == a[1] * b[2] < b[1] * a[2]
REq(a, b) == a[1] * b[2] = b[1] * a[2]
RIsInt(a) == a[1] % a[2] = 0
\* f64::floor
RFloor(a) == a[1] \div a[2]
\* `x as usize` of a float: truncation toward zero, saturating at 0 for negatives
AsUsize(a) == IF a[1] <= 0 THEN 0 ELSE a[1] \div a[2]
\* f64::round (half away from zero), used only to state the spec's wording
RRound(a) == IF a[1] >= 0 THEN (2 * a[1] + a[2]) \div (2 * a[2])
             ELSE 0 - ((2 * (0 - a[1]) + a[2]) \div (2 * a[2]))

Min2(a, b) == IF a <= b THEN a ELSE b

-----------------------------------------------------------------------------
(* Program constants *)

\* resampler.rs:13  const FRAME_PERIOD: f64 = 5.0  (milliseconds)
FRAME_PERIOD == 5
\* dio.rs:11  let hop_size = 256
DIO_HOP == 256
\* audio.rs: the sample rate is whatever the decoded input file carries
SampleRates == {44100}

\* resampler.rs:72  hop_size = (sample_rate * FRAME_PERIOD / 1000.0) as usize
HopSize(sr) == (sr * FRAME_PERIOD) \div 1000

\* dio.rs:12  number of pitch-estimator chunks
DioFrames(len) == len \div DIO_HOP

\* resampler.rs:73-81  f0 = estimate(input); f0.truncate(num_frames)
AnalysisFrameCount(len, sr) == Min2(DioFrames(len), len \div HopSize(sr))

\* resampler.rs:53  velocity = (1.0 - args.velocity / 100.0).exp2(), for the
\* velocities whose rate is a rational number
VelocityRate(v) ==
    CASE v = 0 -> Rat(2, 1)
      [] v = 100 -> Rat(1, 1)
      [] v = 200 -> Rat(1, 2)

-----------------------------------------------------------------------------
(* util.rs:118-127  linspace, over milliseconds *)

linspace(start, end, num, endpoint) ==
    IF num = 0 THEN <<>>
    ELSE IF num = 1 THEN <<Rat(start, 1)>>
    ELSE LET D == IF endpoint THEN num - 1 ELSE num
         IN  [i \in 1..num |-> Rat(start * D + (i - 1) * (end - start), D)]

-----------------------------------------------------------------------------
(* resampler.rs:106-143  the render timeline *)

\* `f0_len - 1` on usize (resampler.rs:122, 127, 138): with f0_len = 0 the
\* subtraction panics when overflow checks are on and wraps to usize::MAX
\* otherwise.  max = TRUE stands for usize::MAX.
LastIndex(n, checks) ==
    IF n >= 1 THEN [panic |-> FALSE, max |-> FALSE, v |-> n - 1]
    ELSE IF checks THEN [panic |-> TRUE, max |-> FALSE, v |-> 0]
    ELSE [panic |-> FALSE, max |-> TRUE, v |-> 0]

\* usize::min(a, last)
MinLast(a, last) == IF last.max THEN a ELSE Min2(a, last.v)

\* resampler.rs:112  start = args.offset / 1000.0  (milliseconds here)
StartMs(a) == a.offset
\* resampler.rs:113  end
EndMs(a, n) ==
    IF a.cutoff < 0 THEN StartMs(a) - a.cutoff ELSE n * FRAME_PERIOD - a.cutoff
\* resampler.rs:114  consonant_src
ConsonantSrcMs(a) == StartMs(a) + a.consonant

\* resampler.rs:116  (velocity * args.consonant / FRAME_PERIOD) as usize
ConsonantCount(a) ==
    LET r == VelocityRate(a.velocity)
    IN  AsUsize(Rat(r[1] * a.consonant, r[2] * FRAME_PERIOD))

\* t_consonant with the right endpoint included
TConsonant_Endpoint(a) == linspace(StartMs(a), ConsonantSrcMs(a), ConsonantCount(a), TRUE)

\* resampler.rs:116  t_consonant
TConsonant(a) == linspace(StartMs(a), ConsonantSrcMs(a), ConsonantCount(a), FALSE)

\* resampler.rs:119  stretch_length > length_req
IsTruncate(a, n) == EndMs(a, n) - ConsonantSrcMs(a) > a.length

\* resampler.rs:120  con_idx = (consonant_src * fps) as usize
ConIdx(a) == AsUsize(Rat(ConsonantSrcMs(a), FRAME_PERIOD))
\* resampler.rs:121, 124  (length_req * fps) as usize
LenIdx(a) == AsUsize(Rat(a.length, FRAME_PERIOD))

\* TruncateRun with the run's end left unclamped
TruncateRun_Unclamped(a, last) ==
    [i \in 1..LenIdx(a) |-> Rat((ConIdx(a) + i - 1) * FRAME_PERIOD, 1)]

\* resampler.rs:122  (con_idx..(con_idx + len_idx).min(f0_len - 1)).map(|i| i / fps)
TruncateRun(a, last) ==
    LET lo == ConIdx(a)
        hi == MinLast(ConIdx(a) + LenIdx(a), last)
    IN  IF hi <= lo THEN <<>>
        ELSE [i \in 1..(hi - lo) |-> Rat((lo + i - 1) * FRAME_PERIOD, 1)]

\* StretchRun with the right endpoint excluded
StretchRun_NoEndpoint(a, n) == linspace(ConsonantSrcMs(a), EndMs(a, n), LenIdx(a), FALSE)

\* resampler.rs:124  linspace(consonant_src, end, (length_req * fps) as usize, true)
StretchRun(a, n) == linspace(ConsonantSrcMs(a), EndMs(a, n), LenIdx(a), TRUE)

\* ClampFrame clamping to f0_len instead of f0_len - 1
ClampFrame_OffByOne(x, last) ==
    LET f == Rat(x[1], x[2] * FRAME_PERIOD)
    IN  IF f[1] < 0 THEN Rat(0, 1)
        ELSE IF (~last.max) /\ RLt(Rat(last.v + 1, 1), f) THEN Rat(last.v + 1, 1)
        ELSE f

\* resampler.rs:127  (x * fps).clamp(0.0, (f0_len - 1) as f64), x in milliseconds
ClampFrame(x, last) ==
    LET f == Rat(x[1], x[2] * FRAME_PERIOD)
    IN  IF f[1] < 0 THEN Rat(0, 1)
        ELSE IF (~last.max) /\ RLt(Rat(last.v, 1), f) THEN Rat(last.v, 1)
        ELSE f

\* resampler.rs:137-138  idx0 = t.floor() as usize; idx1 = (idx0 + 1).min(f0_len - 1)
InterpIdx(t, last) == <<RFloor(t), MinLast(RFloor(t) + 1, last)>>

Offsets == {-5, 0, 7}
Consonants == {0, 9, 20}
Lengths == {0, 8, 15, 40}
Cutoffs == {-30, 0, 40}
Velocities == {0, 100, 200}
\* non-empty inputs: one shorter than an analysis hop, the others whole chunks
InputLens == {100} \cup {DIO_HOP * k : k \in 1..MaxFrames}

NoteArgs == [offset : Offsets, consonant : Consonants, length : Lengths,
             cutoff : Cutoffs, velocity : Velocities]

TimelineIdle ==
    /\ tl_pc = "idle"
    /\ args = [offset |-> 0, consonant |-> 0, length |-> 0, cutoff |-> 0, velocity |-> 100]
    /\ input_len = 0
    /\ sample_rate = 0
    /\ f0_len = 0
    /\ t_consonant = <<>>
    /\ t_stretch = <<>>
    /\ branch = "none"
    /\ t_render = <<>>
    /\ interp = <<>>

\* the state at resampler.rs:106: arguments parsed, features analysed
TimelineInit ==
    /\ tl_pc = "args"
    /\ args \in NoteArgs
    /\ input_len \in InputLens
    /\ sample_rate \in SampleRates
    /\ overflow_checks \in BOOLEAN
    /\ f0_len = AnalysisFrameCount(input_len, sample_rate)
    /\ t_consonant = <<>>
    /\ t_stretch = <<>>
    /\ branch = "none"
    /\ t_render = <<>>
    /\ interp = <<>>

\* resampler.rs:112-128  build t_consonant, t_stretch and t_render
BuildTimeline ==
    /\ tl_pc = "args"
    /\ LET last == LastIndex(f0_len, overflow_checks)
           trunc == IsTruncate(args, f0_len)
           tc == TConsonant(args)
           ts == IF trunc THEN TruncateRun(args, last) ELSE StretchRun(args, f0_len)
           all == tc \o ts
       IN  /\ branch' = IF trunc THEN "truncate" ELSE "stretch"
           /\ t_consonant' = tc
           /\ IF trunc /\ last.panic
              THEN \* line 122: `f0_len - 1` overflows
                   /\ tl_pc' = "panic"
                   /\ UNCHANGED <<t_stretch, t_render>>
              ELSE IF all # <<>> /\ last.panic
              THEN \* line 127: `f0_len - 1` overflows in the first map call
                   /\ tl_pc' = "panic"
                   /\ t_stretch' = ts
                   /\ UNCHANGED t_render
              ELSE /\ tl_pc' = "built"
                   /\ t_stretch' = ts
                   /\ t_render' = [i \in 1..Len(all) |-> ClampFrame(all[i], last)]
    /\ UNCHANGED <<args, input_len, sample_rate, overflow_checks, f0_len, interp>>
    /\ UNCHANGED <<parseVars, cacheVars, laterVars>>

\* resampler.rs:134-143  index the features along the timeline
Interpolate ==
    /\ tl_pc = "built"
    /\ LET last == LastIndex(f0_len, overflow_checks)
       IN  IF \E i \in 1..Len(t_render) : AsUsize(t_render[i]) >= f0_len
           THEN \* line 134: features.f0[t as usize] out of bounds
                /\ tl_pc' = "panic"
                /\ UNCHANGED interp
           ELSE /\ tl_pc' = "done"
                /\ interp' = [i \in 1..Len(t_render) |-> InterpIdx(t_render[i], last)]
    /\ UNCHANGED <<args, input_len, sample_rate, overflow_checks, f0_len,
                   t_consonant, t_stretch, branch, t_render>>
    /\ UNCHANGED <<parseVars, cacheVars, laterVars>>

TimelineNext == BuildTimeline \/ Interpolate

-----------------------------------------------------------------------------
(* Characters and strings.  A string is a sequence of characters; an ASCII  *)
(* character is the one-letter string holding it, a non-ASCII character is  *)
(* named by its code point.                                                 *)

UpperChars == <<"A", "B", "C", "D", "E", "F", "G", "H", "I", "J", "K", "L", "M",
                "N", "O", "P", "Q", "R", "S", "T", "U", "V", "W", "X", "Y", "Z">>
LowerChars == <<"a", "b", "c", "d", "e", "f", "g", "h", "i", "j", "k", "l", "m",
                "n", "o", "p", "q", "r", "s", "t", "u", "v", "w", "x", "y", "z">>
DigitChars == <<"0", "1", "2", "3", "4", "5", "6", "7", "8", "9">>

Range(f) == {f[i] : i \in DOMAIN f}
IndexOf(seq, c) == CHOOSE i \in DOMAIN seq : seq[i] = c
IsUpper(c) == c \in Range(UpperChars)
IsLower(c) == c \in Range(LowerChars)
IsDigit(c) == c \in Range(DigitChars)
DigitVal(c) == IndexOf(DigitChars, c) - 1
\* char::to_ascii_uppercase
ToAsciiUpper(c) == IF IsLower(c) THEN UpperChars[IndexOf(LowerChars, c)] ELSE c
\* char::is_whitespace
IsWhitespace(c) == c = " "
\* U+00E9 (e acute): a letter of two UTF-8 bytes;
\* U+0663 (Arabic-Indic digit three): a numeric character of two UTF-8 bytes
NonAsciiChars == {"U+00E9", "U+0663"}
\* char::len_utf8
Utf8Len(c) == IF c \in NonAsciiChars THEN 2 ELSE 1
\* char::is_numeric
IsNumeric(c) == IsDigit(c) \/ c = "U+0663"

Tail2(cs, k) == SubSeq(cs, k, Len(cs))

\* str::trim
RECURSIVE TrimStart(_)
TrimStart(cs) ==
    IF cs # <<>> /\ IsWhitespace(cs[1]) THEN TrimStart(Tail(cs)) ELSE cs
RECURSIVE TrimEnd(_)
TrimEnd(cs) ==
    IF cs # <<>> /\ IsWhitespace(cs[Len(cs)]) THEN TrimEnd(SubSeq(cs, 1, Len(cs) - 1)) ELSE cs
Trim(cs) == TrimEnd(TrimStart(cs))

Ok(v) == [kind |-> "ok", v |-> v]
Err == [kind |-> "err", v |-> 0]
Panic == [kind |-> "panic", v |-> 0]

-----------------------------------------------------------------------------
(* i32 *)

\* util.rs:3  the result type of pitch_parser is i32
MaxI32 == 2147483647
MinI32 == (0 - MaxI32) - 1

\* digits accumulated as i32 does: towards +inf for a positive number, towards
\* -inf for a negative one; "overflow" when the value leaves the i32 range
RECURSIVE AccDigits(_, _, _)
AccDigits(cs, acc, neg) ==
    IF cs = <<>> THEN Ok(acc)
    ELSE IF ~IsDigit(cs[1]) THEN Err
    ELSE LET dg == DigitVal(cs[1])
         IN  IF neg
             THEN IF acc < (MinI32 + dg + 9) \div 10 THEN Err
                  ELSE AccDigits(Tail(cs), acc * 10 - dg, neg)
             ELSE IF acc > (MaxI32 - dg) \div 10 THEN Err
                  ELSE AccDigits(Tail(cs), acc * 10 + dg, neg)

\* str::parse::<i32>: an optional sign, then one or more ASCII digits
ParseI32(cs) ==
    IF cs = <<>> THEN Err
    ELSE IF cs[1] \in {"+", "-"}
         THEN IF Len(cs) = 1 THEN Err ELSE AccDigits(Tail(cs), 0, cs[1] = "-")
         ELSE AccDigits(cs, 0, FALSE)

\* i32 addition: [of |-> overflowed, v |-> the wrapped sum]
AddI32(a, b) ==
    IF b >= 0 /\ a > MaxI32 - b THEN [of |-> TRUE, v |-> (a + MinI32) + (b + MinI32)]
    ELSE IF b < 0 /\ a < MinI32 - b THEN [of |-> TRUE, v |-> (a - MinI32) + (b - MinI32)]
    ELSE [of |-> FALSE, v |-> a + b]

\* i32 multiplication by 12 = 8q + 4q, built from additions
Mul12I32(q) ==
    LET q2 == AddI32(q, q)
        q4 == AddI32(q2.v, q2.v)
        q8 == AddI32(q4.v, q4.v)
        q12 == AddI32(q8.v, q4.v)
    IN  [of |-> q2.of \/ q4.of \/ q8.of \/ q12.of, v |-> q12.v]

-----------------------------------------------------------------------------
(* util.rs:3-54  pitch_parser *)

\* util.rs:17-26  the semitone of a note letter, -1 for an unknown letter
NoteSemitone(c) ==
    CASE ToAsciiUpper(c) = "C" -> 0
      [] ToAsciiUpper(c) = "D" -> 2
      [] ToAsciiUpper(c) = "E" -> 4
      [] ToAsciiUpper(c) = "F" -> 5
      [] ToAsciiUpper(c) = "G" -> 7
      [] ToAsciiUpper(c) = "A" -> 9
      [] ToAsciiUpper(c) = "B" -> 11
      [] OTHER -> 0 - 1

\* util.rs:51  (octave + 1) * 12 + semitone_offset on i32: an overflow panics
\* when overflow checks are on and wraps otherwise
MidiNote(octave, semitone_offset, checks) ==
    LET o1 == AddI32(octave, 1)
        m == Mul12I32(o1.v)
        r == AddI32(m.v, semitone_offset)
    IN  IF checks /\ (o1.of \/ m.of \/ r.of) THEN Panic ELSE Ok(r.v)

pitch_parser(s0, checks) ==
    IF s0 = <<>> THEN Err
    ELSE LET s == Trim(s0)
             num == ParseI32(s)
         IN  IF num.kind = "ok" THEN num
             ELSE IF s = <<>> THEN Err
             ELSE IF NoteSemitone(s[1]) < 0 THEN Err
             ELSE LET hasNext == Len(s) >= 2
                      sharp == hasNext /\ s[2] = "#"
                      flat == hasNext /\ s[2] \in {"b", "B"}
                      semitone_offset == NoteSemitone(s[1])
                                         + (IF sharp THEN 1 ELSE 0) - (IF flat THEN 1 ELSE 0)
                      octave_str == Tail2(s, IF sharp \/ flat THEN 3 ELSE 2)
                      octave == ParseI32(octave_str)
                  IN  IF octave_str = <<>> THEN Err
                      ELSE IF octave.kind # "ok" THEN Err
                      ELSE MidiNote(octave.v, semitone_offset, checks)

-----------------------------------------------------------------------------
(* f64 values of the parsers: a finite decimal n/d with a sign, NaN, or an  *)
(* infinity.  Exponent notation is outside the alphabets of the model.      *)

FNum(neg, n, d) == [k |-> "num", neg |-> neg, n |-> n, d |-> d]
FNaN == [k |-> "nan", neg |-> FALSE, n |-> 0, d |-> 1]
FInf(neg) == [k |-> "inf", neg |-> neg, n |-> 0, d |-> 1]

\* v <= 0.0 on f64: false for NaN
F64LeZero(v) ==
    \/ v.k = "num" /\ (v.n = 0 \/ v.neg)
    \/ v.k = "inf" /\ v.neg
\* v > 0.0 on f64: false for NaN
F64GtZero(v) ==
    \/ v.k = "num" /\ v.n > 0 /\ ~v.neg
    \/ v.k = "inf" /\ ~v.neg
\* a == b on f64
F64Eq(a, b) ==
    \/ a.k = "num" /\ b.k = "num" /\ a.n * b.d = b.n * a.d /\ (a.neg = b.neg \/ a.n = 0)
    \/ a.k = "inf" /\ b.k = "inf" /\ a.neg = b.neg

Lowered(cs) == [i \in DOMAIN cs |-> IF IsUpper(cs[i]) THEN LowerChars[IndexOf(UpperChars, cs[i])] ELSE cs[i]]

\* the digits of cs as a natural number
RECURSIVE DigitsValue(_, _)
DigitsValue(cs, acc) ==
    IF cs = <<>> THEN acc ELSE DigitsValue(Tail(cs), acc * 10 + DigitVal(cs[1]))

RECURSIVE Pow10(_)
Pow10(k) == IF k = 0 THEN 1 ELSE 10 * Pow10(k - 1)

\* the length of the longest prefix of cs made of ASCII digits
RECURSIVE DigitRun(_)
DigitRun(cs) == IF cs # <<>> /\ IsDigit(cs[1]) THEN 1 + DigitRun(Tail(cs)) ELSE 0

\* f64::from_str: an optional sign, then "nan", "inf" or "infinity" in any
\* case, or digits with an optional point (at least one digit)
ParseF64(cs) ==
    IF cs = <<>> THEN Err
    ELSE LET neg == cs[1] = "-"
             body == IF cs[1] \in {"+", "-"} THEN Tail(cs) ELSE cs
             ni == DigitRun(body)
             rest == Tail2(body, ni + 1)
             hasDot == rest # <<>> /\ rest[1] = "."
             frac == IF hasDot THEN Tail(rest) ELSE <<>>
             nf == DigitRun(frac)
         IN  IF Lowered(body) = <<"n", "a", "n">> THEN Ok(FNaN)
             ELSE IF Lowered(body) \in {<<"i", "n", "f">>, <<"i", "n", "f", "i", "n", "i", "t", "y">>}
                  THEN Ok(FInf(neg))
             ELSE IF ni + nf = 0 THEN Err
             ELSE IF ~hasDot /\ rest # <<>> THEN Err
             ELSE IF hasDot /\ nf # Len(frac) THEN Err
             ELSE Ok(FNum(neg,
                          DigitsValue(SubSeq(body, 1, ni) \o SubSeq(frac, 1, nf), 0),
                          Pow10(nf)))

-----------------------------------------------------------------------------
(* util.rs:56-68  tempo_parser *)

\* str::strip_prefix('!').unwrap_or(s)
StripBang(cs) == IF cs # <<>> /\ cs[1] = "!" THEN Tail(cs) ELSE cs

tempo_parser(s0) ==
    LET v == ParseF64(StripBang(Trim(s0)))
    IN  IF v.kind # "ok" THEN Err
        ELSE IF F64LeZero(v.v) THEN Err
        ELSE Ok(v.v)

-----------------------------------------------------------------------------
(* util.rs:70-104  decode_pitchbend; a sample is held in hundredths of a    *)
(* semitone (the i32 `val` before the division by 100.0)                    *)

\* str::split(sep): the chunks between the separators, always at least one
RECURSIVE Split(_, _, _)
Split(cs, sep, cur) ==
    IF cs = <<>> THEN <<cur>>
    ELSE IF cs[1] = sep THEN <<cur>> \o Split(Tail(cs), sep, <<>>)
    ELSE Split(Tail(cs), sep, Append(cur, cs[1]))

\* util.rs:81-88  the value of one base64 character, 0 for any other one
B64Val(c) ==
    IF IsUpper(c) THEN IndexOf(UpperChars, c) - 1
    ELSE IF IsLower(c) THEN IndexOf(LowerChars, c) - 1 + 26
    ELSE IF IsDigit(c) THEN DigitVal(c) + 52
    ELSE IF c = "+" THEN 62
    ELSE IF c = "/" THEN 63
    ELSE 0

\* PairVal with the sign test off by one (val > 2048)
PairVal_SignOffByOne(c1, c2) ==
    LET val == B64Val(c1) * 64 + B64Val(c2)
    IN  IF val > 2048 THEN val - 4096 ELSE val

\* util.rs:79-92  val = (b64(c1) << 6) | b64(c2); if val > 2047 { val -= 4096 }
PairVal(c1, c2) ==
    LET val == B64Val(c1) * 64 + B64Val(c2)
    IN  IF val > 2047 THEN val - 4096 ELSE val

\* util.rs:77-92  chars.chunks(2), stopping at an incomplete pair
RECURSIVE DecodePairs(_)
DecodePairs(cs) ==
    IF Len(cs) < 2 THEN <<>>
    ELSE <<PairVal(cs[1], cs[2])>> \o DecodePairs(Tail(Tail(cs)))

\* str::parse::<usize>: an optional '+', then one or more ASCII digits
ParseUsize(cs) ==
    LET body == IF cs # <<>> /\ cs[1] = "+" THEN Tail(cs) ELSE cs
    IN  IF body = <<>> \/ DigitRun(body) # Len(body) THEN Err
        ELSE Ok(DigitsValue(body, 0))

\* util.rs:94-100  push `last` rle times, when there is a last sample
Repeat(result, rle) ==
    IF result = <<>> THEN result
    ELSE result \o [k \in 1..rle |-> result[Len(result)]]

\* util.rs:74-101  the loop over the chunks; i is the 0-based chunk index
RECURSIVE DecodeChunks(_, _, _)
DecodeChunks(chunks, i, result) ==
    IF chunks = <<>> THEN result
    ELSE LET chunk == chunks[1]
             rle == ParseUsize(chunk)
         IN  IF i % 2 = 0
             THEN DecodeChunks(Tail(chunks), i + 1, result \o DecodePairs(chunk))
             ELSE IF rle.kind = "ok"
                  THEN DecodeChunks(Tail(chunks), i + 1, Repeat(result, rle.v))
                  ELSE DecodeChunks(Tail(chunks), i + 1, result)

decode_pitchbend(s) == DecodeChunks(Split(s, "#", <<>>), 0, <<>>)

-----------------------------------------------------------------------------
(* flags.rs:6-45  Flags::from_str *)

\* flags.rs:13  s.replace("/", "")
RemoveSlashes(cs) == SelectSeq(cs, LAMBDA c : c # "/")

\* the byte index at which the character after the first k characters starts
RECURSIVE ByteOffset(_, _)
ByteOffset(cs, k) == IF k = 0 THEN 0 ELSE ByteOffset(cs, k - 1) + Utf8Len(cs[k])

IsCharBoundary(cs, b) == \E k \in 0..Len(cs) : ByteOffset(cs, k) = b

\* &s[a..b]: a slice by byte indices, which panics when an index is not on a
\* character boundary
StrSlice(cs, a, b) ==
    IF a > b \/ b > ByteOffset(cs, Len(cs)) \/ ~IsCharBoundary(cs, a) \/ ~IsCharBoundary(cs, b)
    THEN Panic
    ELSE LET ka == CHOOSE k \in 0..Len(cs) : ByteOffset(cs, k) = a
             kb == CHOOSE k \in 0..Len(cs) : ByteOffset(cs, k) = b
         IN  Ok(SubSeq(cs, ka + 1, kb))

\* flags.rs:21, 31  the characters a number may be made of
IsNumberChar(c) == IsNumeric(c) \/ c = "-" \/ c = "."

\* flags.rs:20-23, 30-33  the 0-based index after the run of number characters
RECURSIVE ScanEnd(_, _)
ScanEnd(chars, start) ==
    IF start < Len(chars) /\ IsNumberChar(chars[start + 1])
    THEN ScanEnd(chars, start + 1) ELSE start

\* flags.rs:16-41  the loop; i is the 0-based character index
RECURSIVE FlagsLoop(_, _, _, _)
FlagsLoop(chars, i, gender, breathiness) ==
    IF i >= Len(chars) THEN Ok([gender |-> gender, breathiness |-> breathiness])
    ELSE IF chars[i + 1] \in {"g", "G", "b", "B"}
    THEN LET start == ScanEnd(chars, i + 1)
             text == StrSlice(chars, i + 1, start)
             val == IF text.kind = "ok" THEN ParseF64(text.v) ELSE Err
         IN  IF text.kind = "panic" THEN Panic
             ELSE IF val.kind # "ok" THEN FlagsLoop(chars, start, gender, breathiness)
             ELSE IF chars[i + 1] \in {"g", "G"}
                  THEN FlagsLoop(chars, start, val.v, breathiness)
                  ELSE FlagsLoop(chars, start, gender, val.v)
    ELSE FlagsLoop(chars, i + 1, gender, breathiness)

\* flags.rs:10-11  the defaults
DefaultGender == FNum(FALSE, 0, 1)
DefaultBreathiness == FNum(FALSE, 50, 1)

Flags_from_str(s) == FlagsLoop(RemoveSlashes(s), 0, DefaultGender, DefaultBreathiness)

-----------------------------------------------------------------------------
(* The parsers applied to bounded inputs *)

\* the longest input string built from an alphabet
MaxStrLen == 4
\* the longest pitch-bend string built from its alphabet
MaxBendLen == 5

StringsUpTo(A, n) == UNION {[1..k -> A] : k \in 0..n}

PitchInputs ==
    StringsUpTo({"C", "a", "b", "H", "#", "-", "4", "1", " "}, MaxStrLen)
    \cup { <<"C", "1", "7", "8", "9", "5", "6", "9", "6", "9">>,
           <<"C", "1", "7", "8", "9", "5", "6", "9", "7", "0">>,
           <<"b", "b", "-", "1", "7", "8", "9", "5", "6", "9", "7", "2">>,
           <<"9", "9", "9", "9", "9", "9", "9", "9", "9">> }
TempoInputs ==
    StringsUpTo({"!", "-", "0", "1", ".", "N", "a", " "}, MaxStrLen)
    \cup { <<"1", "5", "0", ".", "5">>, <<"!", "1", "2", "0">>, <<"i", "n", "f">>,
           <<"-", "i", "n", "f">>, <<"!", "n", "a", "n">>, <<"+", "5">>, <<"1", "x">> }
BendInputs ==
    StringsUpTo({"A", "f", "g", "/", "#", "2", "!"}, MaxBendLen)
    \cup { <<"A", "A", "A", "A", "#", "2", "#">>,
           <<"A", "B", "#", "+", "3", "#", "/", "/", "#", "x", "#", "g", "A", "#", "1">> }
FlagInputs ==
    StringsUpTo({"g", "B", "5", "-", ".", "/", "x", "U+00E9", "U+0663"}, MaxStrLen)
    \cup { <<"g", "-", "1", "0", "b", "3", "0">>, <<"G", "+", "5", "/", "b", "2", ".", "5">> }

ParseIdle ==
    /\ p_pc = "idle"
    /\ p_fn = "none"
    /\ p_in = <<>>
    /\ p_out = Err

ParseInit ==
    /\ p_pc = "input"
    /\ p_out = Err
    /\ \/ p_fn = "pitch_parser" /\ p_in \in PitchInputs /\ overflow_checks \in BOOLEAN
       \/ p_fn = "tempo_parser" /\ p_in \in TempoInputs /\ overflow_checks = FALSE
       \/ p_fn = "decode_pitchbend" /\ p_in \in BendInputs /\ overflow_checks = FALSE
       \/ p_fn = "Flags::from_str" /\ p_in \in FlagInputs /\ overflow_checks = FALSE

\* args.rs:19  value_parser = pitch_parser
ParsePitch ==
    /\ p_pc = "input" /\ p_fn = "pitch_parser"
    /\ p_out' = pitch_parser(p_in, overflow_checks)
    /\ p_pc' = "done"
    /\ UNCHANGED <<p_fn, p_in>>
    /\ UNCHANGED <<tlVars, cacheVars, laterVars>>

\* args.rs:37  value_parser = tempo_parser
ParseTempo ==
    /\ p_pc = "input" /\ p_fn = "tempo_parser"
    /\ p_out' = tempo_parser(p_in)
    /\ p_pc' = "done"
    /\ UNCHANGED <<p_fn, p_in>>
    /\ UNCHANGED <<tlVars, cacheVars, laterVars>>

\* resampler.rs:159  args.pitchbend.as_deref().map(decode_pitchbend)
DecodePitchbend ==
    /\ p_pc = "input" /\ p_fn = "decode_pitchbend"
    /\ p_out' = Ok(decode_pitchbend(p_in))
    /\ p_pc' = "done"
    /\ UNCHANGED <<p_fn, p_in>>
    /\ UNCHANGED <<tlVars, cacheVars, laterVars>>

\* resampler.rs:55  Flags::from_str(&args.flags)
ParseFlags ==
    /\ p_pc = "input" /\ p_fn = "Flags::from_str"
    /\ p_out' = Flags_from_str(p_in)
    /\ p_pc' = "done"
    /\ UNCHANGED <<p_fn, p_in>>
    /\ UNCHANGED <<tlVars, cacheVars, laterVars>>

ParseNext == ParsePitch \/ ParseTempo \/ DecodePitchbend \/ ParseFlags

-----------------------------------------------------------------------------
(* resampler.rs:59-104  the analysis cache.  A sample sequence is held as   *)
(* [id, len]: its content and its length.  The analysers are deterministic  *)
(* functions of the samples (dio.rs, trickresolve.rs and d4c.rs draw no     *)
(* random numbers and keep no state); the value they give for a frame is    *)
(* left uninterpreted.  A file is a sequence of 8-byte words.               *)

Procs == 1..MaxRenders

Sources == {[id |-> 1, len |-> DIO_HOP], [id |-> 2, len |-> 2 * DIO_HOP]}

\* dio.rs:10-21  the pitch of frame i (Hz), 0 = unvoiced
F0At(src, i) == IF (src.id + i) % 2 = 0 THEN 0 ELSE 100 * src.id + 10 * i
\* trickresolve.rs:17  the envelope row of frame i
SpecRowAt(src, i) == <<10 * src.id + i>>
\* d4c.rs:16-20  the aperiodicity row of frame i: all ones (1000 thousandths)
\* at or below 40 Hz, the lowest band value (0.005) otherwise
ApRowAt(src, i) == IF F0At(src, i) <= 40 THEN <<1000>> ELSE <<5>>

\* resampler.rs:93-95  the median of the voiced pitches (Hz), in hundredths;
\* 261.63 Hz when no frame is voiced
SourceBaseHz(f0) ==
    LET idx == {i \in DOMAIN f0 : f0[i] > 40}
        k == Cardinality(idx) \div 2
    IN  IF idx = {} THEN 26163
        ELSE 100 * (CHOOSE x \in {f0[i] : i \in idx} :
                        /\ Cardinality({i \in idx : f0[i] < x}) <= k
                        /\ Cardinality({i \in idx : f0[i] <= x}) > k)

\* stydl.rs:19  max_fft_size
FFT_SIZE == 4096

\* resampler.rs:69-99  the analysis of a sample sequence
Analyse(src) ==
    LET n == AnalysisFrameCount(src.len, CHOOSE sr \in SampleRates : TRUE)
        f0 == [i \in 1..n |-> F0At(src, i)]
    IN  [f0 |-> f0,
         spec |-> [i \in 1..n |-> SpecRowAt(src, i)],
         ap |-> [i \in 1..n |-> ApRowAt(src, i)],
         source_base_hz |-> SourceBaseHz(f0),
         fft_size |-> FFT_SIZE]

NoFeatures == [f0 |-> <<>>, spec |-> <<>>, ap |-> <<>>, source_base_hz |-> 0, fft_size |-> 0]

\* bincode: a Vec<f64> is its length, then its elements
EncVec(v) == <<Len(v)>> \o v
RECURSIVE EncRows(_)
EncRows(rows) == IF rows = <<>> THEN <<>> ELSE EncVec(rows[1]) \o EncRows(Tail(rows))

\* resampler.rs:100  bincode::serialize(&feats), field by field (lines 16-22)
Serialize(f) ==
    EncVec(f.f0) \o <<Len(f.spec)>> \o EncRows(f.spec) \o <<Len(f.ap)>> \o EncRows(f.ap)
        \o <<f.source_base_hz, f.fft_size>>

\* bincode: read a Vec<f64>; [ok, v, rest]
DecVec(ws) ==
    IF ws = <<>> \/ Len(ws) - 1 < ws[1] THEN [ok |-> FALSE, v |-> <<>>, rest |-> <<>>]
    ELSE [ok |-> TRUE, v |-> SubSeq(ws, 2, ws[1] + 1), rest |-> Tail2(ws, ws[1] + 2)]
RECURSIVE DecRowsN(_, _, _)
DecRowsN(ws, n, acc) ==
    IF n = 0 THEN [ok |-> TRUE, v |-> acc, rest |-> ws]
    ELSE LET r == DecVec(ws)
         IN  IF ~r.ok THEN [ok |-> FALSE, v |-> <<>>, rest |-> <<>>]
             ELSE DecRowsN(r.rest, n - 1, Append(acc, r.v))
DecRows(ws) ==
    IF ws = <<>> THEN [ok |-> FALSE, v |-> <<>>, rest |-> <<>>]
    ELSE DecRowsN(Tail(ws), ws[1], <<>>)

\* resampler.rs:66  bincode::deserialize::<AxisFeatures>(&buf): an error when
\* the words end early; words after the record are ignored
Deserialize(ws) ==
    LET a == DecVec(ws)
        b == DecRows(a.rest)
        c == DecRows(b.rest)
    IN  IF ~a.ok THEN Err
        ELSE IF ~b.ok THEN Err
        ELSE IF ~c.ok THEN Err
        ELSE IF Len(c.rest) < 2 THEN Err
        ELSE Ok([f0 |-> a.v, spec |-> b.v, ap |-> c.v,
                 source_base_hz |-> c.rest[1], fft_size |-> c.rest[2]])

\* LoadCached re-analysing when the record does not match the samples
LoadCached_Refresh(ws, samples) ==
    LET d == Deserialize(ws)
    IN  IF d.kind = "ok" /\ d.v # Analyse(samples) THEN Ok(Analyse(samples)) ELSE d

\* resampler.rs:62-66  the features of the cache-hit branch
LoadCached(ws, samples) == Deserialize(ws)

\* the sidecar files a render may find: none, the record of some samples, a
\* record cut short, an empty file
NoFile == [exists |-> FALSE, words |-> <<>>]
File(ws) == [exists |-> TRUE, words |-> ws]
InitialSidecars ==
    {NoFile, File(<<>>)}
    \cup {File(Serialize(Analyse(src))) : src \in Sources}
    \cup {File(SubSeq(Serialize(Analyse(src)), 1, 3)) : src \in Sources}

CacheIdle ==
    /\ source = [id |-> 0, len |-> 0]
    /\ sidecar = NoFile
    /\ r_pc = [p \in Procs |-> "off"]
    /\ r_samples = [p \in Procs |-> [id |-> 0, len |-> 0]]
    /\ r_cached = [p \in Procs |-> FALSE]
    /\ r_buf = [p \in Procs |-> <<>>]
    /\ r_features = [p \in Procs |-> NoFeatures]
    /\ r_analysed = [p \in Procs |-> {}]
    /\ r_wrote = [p \in Procs |-> FALSE]

CacheInit ==
    /\ source \in Sources
    /\ sidecar \in InitialSidecars
    /\ r_pc = [p \in Procs |-> "idle"]
    /\ r_samples = [p \in Procs |-> [id |-> 0, len |-> 0]]
    /\ r_cached = [p \in Procs |-> FALSE]
    /\ r_buf = [p \in Procs |-> <<>>]
    /\ r_features = [p \in Procs |-> NoFeatures]
    /\ r_analysed = [p \in Procs |-> {}]
    /\ r_wrote = [p \in Procs |-> FALSE]

RenderRunning(p) == r_pc[p] \notin {"idle", "off", "done", "failed"}

\* the source file is edited or re-recorded
ModifySource ==
    /\ \E src \in Sources \ {source} : source' = src
    /\ UNCHANGED <<sidecar, r_pc, r_samples, r_cached, r_buf, r_features, r_analysed, r_wrote>>
    /\ UNCHANGED <<tlVars, parseVars, laterVars>>

\* main.rs:109-118  load_audio, then resample is entered (the samples are not
\* empty); renders of this specification run one after the other
StartRender(p) ==
    /\ r_pc[p] = "idle"
    /\ \A q \in Procs : ~RenderRunning(q)
    /\ r_samples' = [r_samples EXCEPT ![p] = source]
    /\ r_pc' = [r_pc EXCEPT ![p] = "check"]
    /\ UNCHANGED <<source, sidecar, r_cached, r_buf, r_features, r_analysed, r_wrote>>
    /\ UNCHANGED <<tlVars, parseVars, laterVars>>

\* resampler.rs:59-61  analysis_path.exists()
CheckSidecar(p) ==
    /\ r_pc[p] = "check"
    /\ r_cached' = [r_cached EXCEPT ![p] = sidecar.exists]
    /\ r_pc' = [r_pc EXCEPT ![p] = IF sidecar.exists THEN "read" ELSE "analyse"]
    /\ UNCHANGED <<source, sidecar, r_samples, r_buf, r_features, r_analysed, r_wrote>>
    /\ UNCHANGED <<tlVars, parseVars, laterVars>>

\* resampler.rs:63-65  File::open and read_to_end
ReadSidecar(p) ==
    /\ r_pc[p] = "read"
    /\ sidecar.exists
    /\ r_buf' = [r_buf EXCEPT ![p] = sidecar.words]
    /\ r_pc' = [r_pc EXCEPT ![p] = "deserialize"]
    /\ UNCHANGED <<source, sidecar, r_samples, r_cached, r_features, r_analysed, r_wrote>>
    /\ UNCHANGED <<tlVars, parseVars, laterVars>>

\* resampler.rs:66  bincode::deserialize(&buf)?
DeserializeSidecar(p) ==
    /\ r_pc[p] = "deserialize"
    /\ LET got == LoadCached(r_buf[p], r_samples[p])
       IN  IF got.kind = "ok"
           THEN /\ r_features' = [r_features EXCEPT ![p] = got.v]
                /\ r_pc' = [r_pc EXCEPT ![p] = "features"]
           ELSE /\ r_pc' = [r_pc EXCEPT ![p] = "failed"]
                /\ UNCHANGED r_features
    /\ UNCHANGED <<source, sidecar, r_samples, r_cached, r_buf, r_analysed, r_wrote>>
    /\ UNCHANGED <<tlVars, parseVars, laterVars>>

\* resampler.rs:68-99  the three analysers and the median pitch
RunAnalysis(p) ==
    /\ r_pc[p] = "analyse"
    /\ r_features' = [r_features EXCEPT ![p] = Analyse(r_samples[p])]
    /\ r_analysed' = [r_analysed EXCEPT ![p] = {"f0_estimator", "spectral_resolver", "aperiodicity_estimator"}]
    /\ r_pc' = [r_pc EXCEPT ![p] = "create"]
    /\ UNCHANGED <<source, sidecar, r_samples, r_cached, r_buf, r_wrote>>
    /\ UNCHANGED <<tlVars, parseVars, laterVars>>

\* resampler.rs:100-101  serialize, then File::create: the sidecar exists and
\* is empty
CreateSidecar(p) ==
    /\ r_pc[p] = "create"
    /\ sidecar' = File(<<>>)
    /\ r_pc' = [r_pc EXCEPT ![p] = "write"]
    /\ UNCHANGED <<source, r_samples, r_cached, r_buf, r_features, r_analysed, r_wrote>>
    /\ UNCHANGED <<tlVars, parseVars, laterVars>>

\* what a file holds after `ws` has been written at its start
Overwrite(old, ws) == ws \o SubSeq(old, Len(ws) + 1, Len(old))

\* resampler.rs:102  f.write_all(&bin)
WriteSidecar(p) ==
    /\ r_pc[p] = "write"
    /\ sidecar' = File(Overwrite(sidecar.words, Serialize(r_features[p])))
    /\ r_wrote' = [r_wrote EXCEPT ![p] = TRUE]
    /\ r_pc' = [r_pc EXCEPT ![p] = "features"]
    /\ UNCHANGED <<source, r_samples, r_cached, r_buf, r_features, r_analysed>>
    /\ UNCHANGED <<tlVars, parseVars, laterVars>>

\* resampler.rs:106-211  the render proper, from the features on
FinishRender(p) ==
    /\ r_pc[p] = "features"
    /\ r_pc' = [r_pc EXCEPT ![p] = "done"]
    /\ UNCHANGED <<source, sidecar, r_samples, r_cached, r_buf, r_features, r_analysed, r_wrote>>
    /\ UNCHANGED <<tlVars, parseVars, laterVars>>

CacheNext ==
    \/ ModifySource
    \/ \E p \in Procs :
          \/ StartRender(p)
          \/ CheckSidecar(p)
          \/ ReadSidecar(p)
          \/ DeserializeSidecar(p)
          \/ RunAnalysis(p)
          \/ CreateSidecar(p)
          \/ WriteSidecar(p)
          \/ FinishRender(p)

\* renders of one source file started while no sidecar exists
RaceInit ==
    /\ source \in Sources
    /\ sidecar = NoFile
    /\ r_pc = [p \in Procs |-> "idle"]
    /\ r_samples = [p \in Procs |-> [id |-> 0, len |-> 0]]
    /\ r_cached = [p \in Procs |-> FALSE]
    /\ r_buf = [p \in Procs |-> <<>>]
    /\ r_features = [p \in Procs |-> NoFeatures]
    /\ r_analysed = [p \in Procs |-> {}]
    /\ r_wrote = [p \in Procs |-> FALSE]

\* main.rs:109-118  load_audio, then resample is entered, in a process of its
\* own: other renders may be anywhere in resample
StartConcurrentRender(p) ==
    /\ r_pc[p] = "idle"
    /\ r_samples' = [r_samples EXCEPT ![p] = source]
    /\ r_pc' = [r_pc EXCEPT ![p] = "check"]
    /\ UNCHANGED <<source, sidecar, r_cached, r_buf, r_features, r_analysed, r_wrote>>
    /\ UNCHANGED <<tlVars, parseVars, laterVars>>

RaceNext ==
    \E p \in Procs :
        \/ StartConcurrentRender(p)
        \/ CheckSidecar(p)
        \/ ReadSidecar(p)
        \/ DeserializeSidecar(p)
        \/ RunAnalysis(p)
        \/ CreateSidecar(p)
        \/ WriteSidecar(p)
        \/ FinishRender(p)

-----------------------------------------------------------------------------
(* main.rs:109-124 and resampler.rs:40-212: one invocation.  The feature   *)
(* arrays and the sample buffer are held by their provenance: where the    *)
(* rows came from and which stages have changed them.                      *)

\* the most plugins an invocation loads
MaxPlugins == 2

\* an entry of the trace: a stage, or the hook of plugin k and its outcome
Stage(name) == [ev |-> name, k |-> 0, ok |-> TRUE]
HookCall(name, k, ok) == [ev |-> name, k |-> k, ok |-> ok]

Running == [kind |-> "running", cause |-> "", k |-> 0]
RunOk == [kind |-> "ok", cause |-> "", k |-> 0]
RunErr(cause, k) == [kind |-> "err", cause |-> cause, k |-> k]
RunPanic(cause) == [kind |-> "panic", cause |-> cause, k |-> 0]

\* feature rows: origin "none" (not computed), "resampled" (resampler.rs:136-143,
\* interpolated along the timeline) or "source" (stydl.rs:35-51, analysed again
\* from the source samples)
NoRows == [origin |-> "none", gender |-> 0, mix |-> 50, edits |-> <<>>,
           smoothed |-> FALSE, ones |-> FALSE]
\* resampler.rs:141-142  spec_render, ap_render
ResampledRows == [NoRows EXCEPT !.origin = "resampled"]
\* stydl.rs:35-51  refined_spectral, refined_aperiodicity: resolve / estimate of
\* the source chunk at i * 256 and of f0[i]; the rows passed in are not read
RefinedRows(rows) == [NoRows EXCEPT !.origin = "source"]

\* the output file: the number of File::create calls and what the file holds
NoOutput == [creates |-> 0, state |-> "untouched"]

Genders == {0, 10}
Breathinesses == {50, 80}

RunIdle ==
    /\ m_pc = "off"
    /\ m_k = 0
    /\ m_plugins = 0
    /\ m_flags = [gender |-> 0, breathiness |-> 50]
    /\ m_trace = <<>>
    /\ m_result = Running
    /\ m_spec = NoRows /\ m_ap = NoRows
    /\ m_hook_spec = NoRows /\ m_hook_ap = NoRows
    /\ m_syn_spec = NoRows /\ m_syn_ap = NoRows
    /\ m_buf = <<>> /\ m_buf_pre = <<>>
    /\ m_coeff_failed = FALSE
    /\ out_file = NoOutput

\* main.rs:87-107  the arguments are parsed and the enabled plugins loaded
RunInit ==
    /\ m_pc = "load"
    /\ m_k = 0
    /\ m_plugins \in 0..MaxPlugins
    /\ m_flags \in [gender : Genders, breathiness : Breathinesses]
    /\ m_trace = <<>>
    /\ m_result = Running
    /\ m_spec = NoRows /\ m_ap = NoRows
    /\ m_hook_spec = NoRows /\ m_hook_ap = NoRows
    /\ m_syn_spec = NoRows /\ m_syn_ap = NoRows
    /\ m_buf = <<>> /\ m_buf_pre = <<>>
    /\ m_coeff_failed = FALSE
    /\ out_file = NoOutput

\* an Err that is dropped instead of returned
Try_Ignored(ok, next) == next

\* the `?` operator: an Err leaves the function, an Ok goes on
Try(ok, next) == IF ok THEN next ELSE "failed"

\* main.rs:109-116  load_audio(...)?; an input without samples is saved at once
load_audio ==
    /\ m_pc = "load"
    /\ \E outcome \in {"unloadable", "empty", "samples"} :
          /\ m_trace' = Append(m_trace, HookCall("load_audio", 0, outcome # "unloadable"))
          /\ m_pc' = Try(outcome # "unloadable", IF outcome = "empty" THEN "save" ELSE "features")
          /\ m_result' = IF outcome = "unloadable" THEN RunErr("load_audio", 0) ELSE m_result
    /\ UNCHANGED <<m_k, m_plugins, m_flags, m_spec, m_ap, m_hook_spec, m_hook_ap, m_syn_spec,
                   m_syn_ap, m_buf, m_buf_pre, m_coeff_failed, out_file>>
    /\ UNCHANGED <<tlVars, parseVars, cacheVars, sigVars, synVars, fnVars>>

\* resampler.rs:59-104  the features: read from the sidecar when it exists,
\* analysed otherwise
LoadFeatures ==
    /\ m_pc = "features"
    /\ \E sc \in InitialSidecars, src \in Sources :
          LET ok == ~sc.exists \/ LoadCached(sc.words, src).kind = "ok"
          IN  /\ m_trace' = Append(m_trace, HookCall("features", 0, ok))
              /\ m_pc' = Try(ok, "timeline")
              /\ m_result' = IF ok THEN m_result ELSE RunErr("deserialize", 0)
    /\ UNCHANGED <<m_k, m_plugins, m_flags, m_spec, m_ap, m_hook_spec, m_hook_ap, m_syn_spec,
                   m_syn_ap, m_buf, m_buf_pre, m_coeff_failed, out_file>>
    /\ UNCHANGED <<tlVars, parseVars, cacheVars, sigVars, synVars, fnVars>>

\* resampler.rs:106-143  the render timeline and the rows interpolated along
\* it; with no frame the code panics (lines 122, 127, 134)
ResampleFeatures ==
    /\ m_pc = "timeline"
    /\ \E frames \in BOOLEAN :
          /\ m_trace' = Append(m_trace, HookCall("timeline", 0, frames))
          /\ m_pc' = Try(frames, "gender")
          /\ m_result' = IF frames THEN m_result ELSE RunPanic("timeline")
          /\ m_spec' = IF frames THEN ResampledRows ELSE m_spec
          /\ m_ap' = IF frames THEN ResampledRows ELSE m_ap
    /\ UNCHANGED <<m_k, m_plugins, m_flags, m_hook_spec, m_hook_ap, m_syn_spec,
                   m_syn_ap, m_buf, m_buf_pre, m_coeff_failed, out_file>>
    /\ UNCHANGED <<tlVars, parseVars, cacheVars, sigVars, synVars, fnVars>>

\* resampler.rs:145-157  the gender shift of every envelope row
GenderTransform ==
    /\ m_pc = "gender"
    /\ m_trace' = Append(m_trace, Stage("gender"))
    /\ m_spec' = IF m_flags.gender # 0 THEN [m_spec EXCEPT !.gender = m_flags.gender] ELSE m_spec
    /\ m_pc' = "pitch"
    /\ UNCHANGED <<m_k, m_plugins, m_flags, m_result, m_ap, m_hook_spec, m_hook_ap, m_syn_spec,
                   m_syn_ap, m_buf, m_buf_pre, m_coeff_failed, out_file>>
    /\ UNCHANGED <<tlVars, parseVars, cacheVars, sigVars, synVars, fnVars>>

\* resampler.rs:159-170  f0_render
PitchCurve ==
    /\ m_pc = "pitch"
    /\ m_trace' = Append(m_trace, Stage("pitch"))
    /\ m_pc' = "breathiness"
    /\ UNCHANGED <<m_k, m_plugins, m_flags, m_result, m_spec, m_ap, m_hook_spec, m_hook_ap,
                   m_syn_spec, m_syn_ap, m_buf, m_buf_pre, m_coeff_failed, out_file>>
    /\ UNCHANGED <<tlVars, parseVars, cacheVars, sigVars, synVars, fnVars>>

\* resampler.rs:172-177  the breathiness mix of every aperiodicity row
BreathinessTransform ==
    /\ m_pc = "breathiness"
    /\ m_trace' = Append(m_trace, Stage("breathiness"))
    /\ m_ap' = IF m_flags.breathiness # 50 THEN [m_ap EXCEPT !.mix = m_flags.breathiness] ELSE m_ap
    /\ m_pc' = "process_features"
    /\ m_k' = 1
    /\ UNCHANGED <<m_plugins, m_flags, m_result, m_spec, m_hook_spec, m_hook_ap, m_syn_spec,
                   m_syn_ap, m_buf, m_buf_pre, m_coeff_failed, out_file>>
    /\ UNCHANGED <<tlVars, parseVars, cacheVars, sigVars, synVars, fnVars>>

\* a hook whose Err is dropped
AfterHook_Ignored(ok, next) == next

\* resampler.rs:184, 203  plugin.process_...(...)?
AfterHook(ok, next) == Try(ok, next)

\* resampler.rs:183-185  plugin.process_features(&mut f0_p, &mut spec_p, &mut ap_p, ..)?
\* for the next plugin; the hook may edit the arrays in place
process_features ==
    /\ m_pc = "process_features"
    /\ m_k <= m_plugins
    /\ \E ok \in BOOLEAN, edits \in BOOLEAN :
          /\ m_trace' = Append(m_trace, HookCall("process_features", m_k, ok))
          /\ m_pc' = AfterHook(ok, "process_features")
          /\ m_result' = IF ok THEN m_result ELSE RunErr("process_features", m_k)
          /\ m_spec' = IF edits THEN [m_spec EXCEPT !.edits = Append(@, m_k)] ELSE m_spec
          /\ m_ap' = IF edits THEN [m_ap EXCEPT !.edits = Append(@, m_k)] ELSE m_ap
    /\ m_k' = m_k + 1
    /\ UNCHANGED <<m_plugins, m_flags, m_hook_spec, m_hook_ap, m_syn_spec,
                   m_syn_ap, m_buf, m_buf_pre, m_coeff_failed, out_file>>
    /\ UNCHANGED <<tlVars, parseVars, cacheVars, sigVars, synVars, fnVars>>

\* resampler.rs:188-190  smooth_spectrum(frame, 3) on every envelope row, once
\* the feature hooks have all returned
SmoothSpectrum ==
    /\ m_pc = "process_features"
    /\ m_k > m_plugins
    /\ m_trace' = Append(m_trace, Stage("smooth_spectrum"))
    /\ m_hook_spec' = m_spec
    /\ m_hook_ap' = m_ap
    /\ m_spec' = [m_spec EXCEPT !.smoothed = TRUE]
    /\ m_pc' = "unvoiced"
    /\ UNCHANGED <<m_k, m_plugins, m_flags, m_result, m_ap, m_syn_spec,
                   m_syn_ap, m_buf, m_buf_pre, m_coeff_failed, out_file>>
    /\ UNCHANGED <<tlVars, parseVars, cacheVars, sigVars, synVars, fnVars>>

\* resampler.rs:192-196  the aperiodicity row of every frame with f0 = 0 is set to 1.0
UnvoicedAperiodicity ==
    /\ m_pc = "unvoiced"
    /\ m_trace' = Append(m_trace, Stage("unvoiced"))
    /\ m_ap' = [m_ap EXCEPT !.ones = TRUE]
    /\ m_pc' = "synthesize"
    /\ UNCHANGED <<m_k, m_plugins, m_flags, m_result, m_spec, m_hook_spec, m_hook_ap, m_syn_spec,
                   m_syn_ap, m_buf, m_buf_pre, m_coeff_failed, out_file>>
    /\ UNCHANGED <<tlVars, parseVars, cacheVars, sigVars, synVars, fnVars>>

\* resampler.rs:199-200 and stydl.rs:31-54  StydlVocoder::process: the rows
\* handed to StydlEngine::synthesize (stydl.rs:53)
Synthesize ==
    /\ m_pc = "synthesize"
    /\ m_trace' = Append(m_trace, Stage("synthesize"))
    /\ m_syn_spec' = RefinedRows(m_spec)
    /\ m_syn_ap' = RefinedRows(m_ap)
    /\ m_buf' = <<"synthesize">>
    /\ m_pc' = "process_audio"
    /\ m_k' = 1
    /\ UNCHANGED <<m_plugins, m_flags, m_result, m_spec, m_ap, m_hook_spec, m_hook_ap,
                   m_buf_pre, m_coeff_failed, out_file>>
    /\ UNCHANGED <<tlVars, parseVars, cacheVars, sigVars, synVars, fnVars>>

\* resampler.rs:202-204  plugin.process_audio(&mut syn, sample_rate)? for the
\* next plugin
process_audio ==
    /\ m_pc = "process_audio"
    /\ m_k <= m_plugins
    /\ \E ok \in BOOLEAN :
          /\ m_trace' = Append(m_trace, HookCall("process_audio", m_k, ok))
          /\ m_pc' = AfterHook(ok, "process_audio")
          /\ m_result' = IF ok THEN m_result ELSE RunErr("process_audio", m_k)
    /\ m_buf' = Append(m_buf, "process_audio")
    /\ m_k' = m_k + 1
    /\ UNCHANGED <<m_plugins, m_flags, m_spec, m_ap, m_hook_spec, m_hook_ap, m_syn_spec,
                   m_syn_ap, m_buf_pre, m_coeff_failed, out_file>>
    /\ UNCHANGED <<tlVars, parseVars, cacheVars, sigVars, synVars, fnVars>>

\* resampler.rs:206  apply_volume, once the sample hooks have all returned
apply_volume ==
    /\ m_pc = "process_audio"
    /\ m_k > m_plugins
    /\ m_trace' = Append(m_trace, Stage("apply_volume"))
    /\ m_buf' = Append(m_buf, "apply_volume")
    /\ m_pc' = "enhance"
    /\ UNCHANGED <<m_k, m_plugins, m_flags, m_result, m_spec, m_ap, m_hook_spec, m_hook_ap,
                   m_syn_spec, m_syn_ap, m_buf_pre, m_coeff_failed, out_file>>
    /\ UNCHANGED <<tlVars, parseVars, cacheVars, sigVars, synVars, fnVars>>

\* the filters of the enhancement chain, in the order of filter.rs:20-30
Filters == <<"high_pass", "peaking_eq", "high_shelf">>

\* filter.rs:17-40  the operations apply_vocal_enhancement performs on the
\* samples when make_coefficients fails for the filters in `fails`: each filter
\* is built and run in turn, `?` returns at the first failure, the saturation
\* runs after the third filter
EnhancementOps(fails) ==
    IF "high_pass" \in fails THEN <<>>
    ELSE IF "peaking_eq" \in fails THEN <<"high_pass">>
    ELSE IF "high_shelf" \in fails THEN <<"high_pass", "peaking_eq">>
    ELSE <<"high_pass", "peaking_eq", "high_shelf", "saturation">>

\* resampler.rs:208  let _ = apply_vocal_enhancement(&mut syn, sample_rate)
apply_vocal_enhancement ==
    /\ m_pc = "enhance"
    /\ \E fails \in SUBSET Range(Filters) :
          /\ m_coeff_failed' = (fails # {})
          /\ m_buf' = m_buf \o EnhancementOps(fails)
          /\ m_trace' = Append(m_trace, HookCall("apply_vocal_enhancement", 0, fails = {}))
    /\ m_buf_pre' = m_buf
    /\ m_pc' = "return"
    /\ UNCHANGED <<m_k, m_plugins, m_flags, m_result, m_spec, m_ap, m_hook_spec, m_hook_ap,
                   m_syn_spec, m_syn_ap, out_file>>
    /\ UNCHANGED <<tlVars, parseVars, cacheVars, sigVars, synVars, fnVars>>

\* resampler.rs:211  Ok(syn), and main.rs:118-119
ReturnSamples ==
    /\ m_pc = "return"
    /\ m_trace' = Append(m_trace, Stage("return"))
    /\ m_pc' = "save"
    /\ UNCHANGED <<m_k, m_plugins, m_flags, m_result, m_spec, m_ap, m_hook_spec, m_hook_ap,
                   m_syn_spec, m_syn_ap, m_buf, m_buf_pre, m_coeff_failed, out_file>>
    /\ UNCHANGED <<tlVars, parseVars, cacheVars, sigVars, synVars, fnVars>>

\* main.rs:113-114, 121-122 and audio.rs:131-172  save_audio(...)?: File::create,
\* then the header and the samples; either may fail
save_audio ==
    /\ m_pc = "save"
    /\ \E outcome \in {"written", "create_fails", "write_fails"} :
          /\ m_trace' = Append(m_trace, HookCall("save_audio", 0, outcome = "written"))
          /\ out_file' = CASE outcome = "written" ->
                                [creates |-> out_file.creates + 1, state |-> "complete"]
                           [] outcome = "write_fails" ->
                                [creates |-> out_file.creates + 1, state |-> "partial"]
                           [] OTHER -> out_file
          /\ m_result' = IF outcome = "written" THEN RunOk ELSE RunErr("save_audio", 0)
          /\ m_pc' = Try(outcome = "written", "done")
    /\ UNCHANGED <<m_k, m_plugins, m_flags, m_spec, m_ap, m_hook_spec, m_hook_ap,
                   m_syn_spec, m_syn_ap, m_buf, m_buf_pre, m_coeff_failed>>
    /\ UNCHANGED <<tlVars, parseVars, cacheVars, sigVars, synVars, fnVars>>

RunNext ==
    \/ load_audio
    \/ LoadFeatures
    \/ ResampleFeatures
    \/ GenderTransform
    \/ PitchCurve
    \/ BreathinessTransform
    \/ process_features
    \/ SmoothSpectrum
    \/ UnvoicedAperiodicity
    \/ Synthesize
    \/ process_audio
    \/ apply_volume
    \/ apply_vocal_enhancement
    \/ ReturnSamples
    \/ save_audio

-----------------------------------------------------------------------------
(* hmm.rs  VoicingHmm.  A pitch is a whole number of Hz on input and an     *)
(* exact rational on output; a log-probability is held in millionths        *)
(* (ln 0.95 = -0.051293..., ln 0.05 = -2.995732..., ln 0.15 = -1.897120..., *)
(* ln 0.85 = -0.162519...).                                                 *)

\* hmm.rs:31  f0_threshold: 40.0
F0_THRESHOLD == 40
\* hmm.rs:153  median_radius
MEDIAN_RADIUS == 2

States == <<"Voiced", "Unvoiced">>

\* transitions that make a change of state far less likely (p = 1e-9)
Transition_Sticky(i, j) ==
    IF i = j THEN 0 ELSE 0 - 20723266

\* hmm.rs:21-30  the transition log-probabilities, from state i to state j
Transition(i, j) ==
    CASE i = 1 /\ j = 1 -> 0 - 51293
      [] i = 1 /\ j = 2 -> 0 - 2995732
      [] i = 2 /\ j = 1 -> 0 - 1897120
      [] i = 2 /\ j = 2 -> 0 - 162519

\* hmm.rs:35-57
emission_log_prob(f0, state) ==
    IF state = "Voiced"
    THEN IF f0 >= F0_THRESHOLD THEN 0 - 500000 ELSE 0 - 15000000
    ELSE IF f0 < F0_THRESHOLD THEN 0 - 50000 ELSE 0 - 8000000

\* hmm.rs:71-75  viterbi[0]
ViterbiInit(f0) ==
    LET init_voiced == IF f0 >= F0_THRESHOLD THEN 0 - 300000 ELSE 0 - 2000000
        init_unvoiced == IF f0 < F0_THRESHOLD THEN 0 - 300000 ELSE 0 - 2000000
    IN  <<init_voiced + emission_log_prob(f0, "Voiced"),
          init_unvoiced + emission_log_prob(f0, "Unvoiced")>>

\* the forward pass without the comparison: the previous state is always
\* taken to be Voiced
ViterbiStep_FirstPrev(prev, f0) ==
    [j \in 1..2 |->
        [score |-> prev[1] + Transition(1, j) + emission_log_prob(f0, States[j]), back |-> 1]]

\* hmm.rs:79-101  one column of the forward pass: the previous state 0 is
\* kept unless previous state 1 scores strictly higher
ViterbiStep(prev, f0) ==
    [j \in 1..2 |->
        LET s1 == prev[1] + Transition(1, j)
            s2 == prev[2] + Transition(2, j)
            best_prev == IF s2 > s1 THEN 2 ELSE 1
            best_score == IF s2 > s1 THEN s2 ELSE s1
        IN  [score |-> best_score + emission_log_prob(f0, States[j]), back |-> best_prev]]

\* hmm.rs:78-102  the forward pass; cols[t] is column t of viterbi and backptr
RECURSIVE Forward(_, _)
Forward(f0_raw, cols) ==
    IF Len(cols) = Len(f0_raw) THEN cols
    ELSE LET t == Len(cols) + 1
             prev == <<cols[t - 1][1].score, cols[t - 1][2].score>>
         IN  Forward(f0_raw, Append(cols, ViterbiStep(prev, f0_raw[t])))

\* hmm.rs:109-113  the back trace from frame t down to the first
RECURSIVE Backtrace(_, _, _, _)
Backtrace(cols, t, cur, path) ==
    IF t = 1 THEN path
    ELSE LET before == cols[t][cur].back
         IN  Backtrace(cols, t - 1, before, <<States[before]>> \o path)

\* hmm.rs:60-119
decode(f0_raw) ==
    IF f0_raw = <<>> THEN <<>>
    ELSE LET n == Len(f0_raw)
             v0 == ViterbiInit(f0_raw[1])
             first == [j \in 1..2 |-> [score |-> v0[j], back |-> 1]]
             cols == Forward(f0_raw, <<first>>)
             last_state == IF cols[n][1].score > cols[n][2].score THEN 1 ELSE 2
         IN  Backtrace(cols, n, last_state, <<States[last_state]>>)

\* hmm.rs:135-136  the nearest frame at or above the threshold before / after
\* frame i, 0 when there is none
PrevVoiced(f0_raw, i) ==
    LET js == {j \in 1..(i - 1) : f0_raw[j] >= F0_THRESHOLD}
    IN  IF js = {} THEN 0 ELSE CHOOSE j \in js : \A k \in js : k <= j
NextVoiced(f0_raw, i) ==
    LET js == {j \in (i + 1)..Len(f0_raw) : f0_raw[j] >= F0_THRESHOLD}
    IN  IF js = {} THEN 0 ELSE CHOOSE j \in js : \A k \in js : j <= k

\* hmm.rs:129-149  f0_smooth[i]
SmoothedFrame(f0_raw, voicing, i) ==
    IF voicing[i] = "Unvoiced" THEN Rat(0, 1)
    ELSE IF f0_raw[i] >= F0_THRESHOLD THEN Rat(f0_raw[i], 1)
    ELSE LET p == PrevVoiced(f0_raw, i)
             nx == NextVoiced(f0_raw, i)
         IN  CASE p # 0 /\ nx # 0 ->
                      Rat(f0_raw[p] * (nx - i) + f0_raw[nx] * (i - p), nx - p)
               [] p # 0 /\ nx = 0 -> Rat(f0_raw[p], 1)
               [] p = 0 /\ nx # 0 -> Rat(f0_raw[nx], 1)
               [] OTHER -> Rat(0, 1)

\* the element of index len / 2 taken with the upper neighbour instead
MedianIndex_Upper(len) == IF len = 0 THEN 0 ELSE len - 1

\* hmm.rs:166  window[window.len() / 2], as a 0-based index
MedianIndex(len) == len \div 2

\* hmm.rs:165-166  the element at MedianIndex of the sorted window
SortedAt(window, idx) ==
    LET j == CHOOSE j \in DOMAIN window :
                 /\ Cardinality({i \in DOMAIN window : RLt(window[i], window[j])}) <= idx
                 /\ idx < Cardinality({i \in DOMAIN window : RLeq(window[i], window[j])})
    IN  window[j]

\* hmm.rs:155-169  f0_median[i]
MedianFrame(f0_smooth, i) ==
    IF ~RLt(Rat(0, 1), f0_smooth[i]) THEN f0_smooth[i]
    ELSE LET n == Len(f0_smooth)
             start == IF i - MEDIAN_RADIUS < 1 THEN 1 ELSE i - MEDIAN_RADIUS
             end == Min2(i + MEDIAN_RADIUS, n)
             window == SelectSeq(SubSeq(f0_smooth, start, end), LAMBDA v : RLt(Rat(0, 1), v))
         IN  IF window = <<>> THEN f0_smooth[i]
             ELSE SortedAt(window, MedianIndex(Len(window)))

\* hmm.rs:122-172
smooth_f0(f0_raw) ==
    LET voicing == decode(f0_raw)
        f0_smooth == [i \in 1..Len(f0_raw) |-> SmoothedFrame(f0_raw, voicing, i)]
    IN  [i \in 1..Len(f0_raw) |-> MedianFrame(f0_smooth, i)]

-----------------------------------------------------------------------------
(* audio.rs:131-172  write_wav.  A sample is an f64: a finite n/d with a    *)
(* sign, NaN, or an infinity.                                               *)

\* f64::max(self, other) with other a number: NaN gives other
F64Max(x, c) ==
    CASE x.k = "nan" -> c
      [] x.k = "inf" -> IF x.neg THEN c ELSE x
      [] OTHER -> LET xs == IF x.neg THEN 0 - x.n ELSE x.n
                      cs == IF c.neg THEN 0 - c.n ELSE c.n
                  IN  IF xs * c.d >= cs * x.d THEN x ELSE c
\* f64::min(self, other) with other a number: NaN gives other
F64Min(x, c) ==
    CASE x.k = "nan" -> c
      [] x.k = "inf" -> IF x.neg THEN x ELSE c
      [] OTHER -> LET xs == IF x.neg THEN 0 - x.n ELSE x.n
                      cs == IF c.neg THEN 0 - c.n ELSE c.n
                  IN  IF xs * c.d <= cs * x.d THEN x ELSE c

\* the cast rounding to the nearest integer instead of truncating
ScaleToI16_Rounded(x) ==
    CASE x.k = "nan" -> 0
      [] x.k = "inf" -> IF x.neg THEN 0 - 32768 ELSE 32767
      [] OTHER -> LET m == (2 * x.n * 32767 + x.d) \div (2 * x.d)
                      v == IF x.neg THEN 0 - m ELSE m
                  IN  IF v > 32767 THEN 32767 ELSE IF v < 0 - 32768 THEN 0 - 32768 ELSE v

\* audio.rs:166  (clamped * 32767.0) as i16: the product truncated toward
\* zero, saturating at the ends of i16, 0 for NaN
ScaleToI16(x) ==
    CASE x.k = "nan" -> 0
      [] x.k = "inf" -> IF x.neg THEN 0 - 32768 ELSE 32767
      [] OTHER -> LET m == (x.n * 32767) \div x.d
                      v == IF x.neg THEN 0 - m ELSE m
                  IN  IF v > 32767 THEN 32767 ELSE IF v < 0 - 32768 THEN 0 - 32768 ELSE v

\* audio.rs:165-166  one sample
PcmSample(x) == ScaleToI16(F64Min(F64Max(x, FNum(TRUE, 1, 1)), FNum(FALSE, 1, 1)))

\* audio.rs:134-169  the file write_wav leaves: the header fields and the
\* 16-bit words that follow the "data" chunk header
write_wav(samples, rate) ==
    LET data_size == Len(samples) * 2
    IN  [riff_size |-> 36 + data_size,
         fmt_size |-> 16, format |-> 1, channels |-> 1,
         sample_rate |-> rate, byte_rate |-> rate * 1 * (16 \div 8),
         block_align |-> 1 * (16 \div 8), bits_per_sample |-> 16,
         data_size |-> data_size,
         words |-> IF samples = <<>> THEN <<0>>
                   ELSE [i \in DOMAIN samples |-> PcmSample(samples[i])]]

-----------------------------------------------------------------------------
(* smooth_f0 and write_wav applied to bounded inputs *)

\* the longest pitch sequence
MaxF0Len == 5
\* the longest sample sequence
MaxWavLen == 2

\* silence, a pitch below the 40 Hz floor, the floor itself, and pitches above it
F0Values == {0, 30, 40, 200, 800}
F0Inputs ==
    UNION {[1..k -> F0Values] : k \in 0..MaxF0Len}
    \cup {<<200, 205, 198, 0, 210, 200>>}

WavSamples ==
    {FNum(FALSE, 0, 1), FNum(TRUE, 0, 1), FNum(FALSE, 1, 2), FNum(TRUE, 1, 2),
     FNum(FALSE, 1, 1), FNum(TRUE, 1, 1), FNum(FALSE, 3, 1), FNum(TRUE, 3, 1),
     FNum(FALSE, 999, 1000), FNum(TRUE, 1, 100000),
     FInf(FALSE), FInf(TRUE), FNaN}
WavInputs == UNION {[1..k -> WavSamples] : k \in 0..MaxWavLen}

NoWav == [riff_size |-> 0, fmt_size |-> 0, format |-> 0, channels |-> 0, sample_rate |-> 0,
          byte_rate |-> 0, block_align |-> 0, bits_per_sample |-> 0, data_size |-> 0,
          words |-> <<>>]

SignalIdle ==
    /\ g_pc = "idle" /\ g_fn = "none"
    /\ g_f0 = <<>> /\ g_voicing = <<>> /\ g_smoothed = <<>>
    /\ g_samples = <<>> /\ g_file = NoWav

SignalInit ==
    /\ g_pc = "input"
    /\ g_voicing = <<>> /\ g_smoothed = <<>> /\ g_file = NoWav
    /\ \/ g_fn = "smooth_f0" /\ g_f0 \in F0Inputs /\ g_samples = <<>>
       \/ g_fn = "write_wav" /\ g_samples \in WavInputs /\ g_f0 = <<>>

\* hmm.rs:122  VoicingHmm::new().smooth_f0(&f0)
SmoothF0 ==
    /\ g_pc = "input" /\ g_fn = "smooth_f0"
    /\ g_voicing' = decode(g_f0)
    /\ g_smoothed' = smooth_f0(g_f0)
    /\ g_pc' = "done"
    /\ UNCHANGED <<g_fn, g_f0, g_samples, g_file>>
    /\ UNCHANGED <<tlVars, parseVars, cacheVars, runVars, synVars, fnVars>>

\* audio.rs:126  write_wav(path, samples, sample_rate)
WriteWav ==
    /\ g_pc = "input" /\ g_fn = "write_wav"
    /\ \E rate \in SampleRates : g_file' = write_wav(g_samples, rate)
    /\ g_pc' = "done"
    /\ UNCHANGED <<g_fn, g_f0, g_voicing, g_smoothed, g_samples>>
    /\ UNCHANGED <<tlVars, parseVars, cacheVars, runVars, synVars, fnVars>>

SignalNext == SmoothF0 \/ WriteWav

-----------------------------------------------------------------------------
(* StydlEngine (vocoder/synthesis.rs).                                     *)
(*                                                                         *)
(* Two engines are constructed and run side by side on the same f0 slice,  *)
(* the same spectral and aperiodicity rows and the same noise-grain phase  *)
(* draws, so that what differs between them is what construction drew.    *)
(* A phase is held exactly, as an integer number of 1/PhaseUnit turns      *)
(* (one turn = 2*pi); f64 rounding of the accumulators is not modelled.    *)
(* The rows are taken to have positive power and aperiodicity below 1, so  *)
(* that every harmonic summed into sample_voiced has a positive weight.    *)

\* synthesis.rs:74  let hop_size = 256
HOP_SIZE == 256

\* synthesis.rs:14  (0..1024): the length of harmonic_phases
NUM_PHASES == 1024

\* synthesis.rs:107  num_harmonics.min(512)
MAX_HARMONICS == 512

\* synthesis.rs:105  current_f0 > 40.0
VOICED_HZ == 40

MaxSynFrames == 3

Engines == {1, 2}

\* the sample rate the engines are built with
SynRate == CHOOSE r \in SampleRates : TRUE

\* one turn, in the unit the phases are held in: the increment of harmonic
\* k is k * current_f0 / sample_rate turns and current_f0 is a multiple of
\* 1/HOP_SIZE Hz
PhaseUnit == HOP_SIZE * SynRate

\* frame f0 values: unvoiced, and a voiced pitch with fewer than
\* MAX_HARMONICS harmonics below Nyquist that has more of them as it glides
\* down to the 40 Hz floor
SynF0Values == {0, 44}

SynInputs == UNION {[1..n -> SynF0Values] : n \in 0..MaxSynFrames}

\* synthesis.rs:14  rng.gen::<f64>() * 2.0 * PI: what the two engines draw,
\* here the same value, or values a quarter turn apart
EngineDraws == {<<0, 0>>, <<0, PhaseUnit \div 4>>}

\* synthesis.rs:95  current_f0 = f0_start * (1 - alpha) + f0_end * alpha,
\* alpha = t / hop_size; the value is in 1/HOP_SIZE Hz
current_f0(f0_start, f0_end, t) == f0_start * (HOP_SIZE - t) + f0_end * t

\* synthesis.rs:99-101  voicing_weight, in 1/HOP_SIZE
voicing_weight(f0_start, f0_end, t) ==
    (IF f0_start > VOICED_HZ THEN HOP_SIZE - t ELSE 0) + (IF f0_end > VOICED_HZ THEN t ELSE 0)

\* synthesis.rs:105  voicing_weight > 0.001
WeightAudible(w) == w * 1000 > HOP_SIZE

\* synthesis.rs:105, 126  current_f0 > 40.0
Above40(cf0) == cf0 > VOICED_HZ * HOP_SIZE

\* synthesis.rs:106-107, 128-129  floor(sample_rate / (2 * current_f0)).min(512)
num_harmonics_Uncapped(cf0) == (SynRate * HOP_SIZE) \div (2 * cf0)
num_harmonics(cf0) == Min2((SynRate * HOP_SIZE) \div (2 * cf0), MAX_HARMONICS)

\* synthesis.rs:110  phase_inc = 2 * PI * (current_f0 * k) / sample_rate
phase_inc(cf0, k) == (cf0 * k) % PhaseUnit

\* synthesis.rs:109-111, 130-132  for k in 1..=num_harmonics:
\*   harmonic_phases[k % 1024] = (harmonic_phases[k % 1024] + phase_inc) % (2 * PI)
\* (no two k of one sample share an index unless num_harmonics exceeds 1024,
\* which needs more than 2048 * 40 Hz of sample rate)
AdvancePhases(phases, cf0, nh) ==
    [i \in 0..(NUM_PHASES - 1) |->
        IF i >= 1 /\ i <= nh
        THEN (phases[i] + phase_inc(cf0, i)) % PhaseUnit
        ELSE IF i + NUM_PHASES <= nh
             THEN (phases[i] + phase_inc(cf0, i + NUM_PHASES)) % PhaseUnit
             ELSE phases[i]]

\* synthesis.rs:105-134  what one sample does to harmonic_phases
StepPhases(phases, f0_start, f0_end, t) ==
    LET cf0 == current_f0(f0_start, f0_end, t)
    IN  IF Above40(cf0) THEN AdvancePhases(phases, cf0, num_harmonics(cf0)) ELSE phases

\* synthesis.rs:104-125  the number of harmonics summed into sample_voiced
\* (0: sample_voiced stays 0.0)
SummedHarmonics(f0_start, f0_end, t) ==
    LET cf0 == current_f0(f0_start, f0_end, t)
    IN  IF WeightAudible(voicing_weight(f0_start, f0_end, t)) /\ Above40(cf0)
        THEN num_harmonics(cf0) ELSE 0

SynthIdle ==
    /\ y_pc = "idle" /\ y_f0 = <<>> /\ y_f_idx = 0 /\ y_t = 0
    /\ y_phases = <<>> /\ y_w = 0 /\ y_nh = 0
    /\ y_samples = 0 /\ y_advanced = FALSE

SynthInit ==
    /\ y_pc = "new" /\ y_f0 \in SynInputs /\ y_f_idx = 0 /\ y_t = 0
    /\ y_phases = <<>> /\ y_w = 0 /\ y_nh = 0
    /\ y_samples = 0 /\ y_advanced = FALSE

\* synthesis.rs:12-20  StydlEngine::new, once per engine: every entry of
\* harmonic_phases is a fresh draw (here one draw per engine fills the array)
EngineNew ==
    /\ y_pc = "new"
    /\ \E draw \in EngineDraws :
          y_phases' = [e \in Engines |-> [i \in 0..(NUM_PHASES - 1) |-> draw[e]]]
    /\ y_pc' = "frame"
    /\ UNCHANGED <<y_f0, y_f_idx, y_t, y_w, y_nh, y_samples, y_advanced>>
    /\ UNCHANGED <<tlVars, parseVars, cacheVars, runVars, sigVars, fnVars>>

\* synthesis.rs:80-88  the head of the f_idx loop
\* (0..num_frames.saturating_sub(1)).  The pair's noise grain is computed
\* from the rows and from phase draws that are the same in both engines, so
\* the unvoiced stream is the same in both and is left out.
BeginPair ==
    /\ y_pc = "frame"
    /\ y_f_idx + 1 < Len(y_f0)
    /\ y_t' = 0
    /\ y_pc' = "sample"
    /\ UNCHANGED <<y_f0, y_f_idx, y_phases, y_w, y_nh, y_samples, y_advanced>>
    /\ UNCHANGED <<tlVars, parseVars, cacheVars, runVars, sigVars, fnVars>>

\* synthesis.rs:90-145  one iteration of the t loop, in both engines
SynthesizeSample ==
    /\ y_pc = "sample"
    /\ LET f0_start == y_f0[y_f_idx + 1]
           f0_end == y_f0[y_f_idx + 2]
       IN  /\ y_phases' = [e \in Engines |-> StepPhases(y_phases[e], f0_start, f0_end, y_t)]
           /\ y_w' = voicing_weight(f0_start, f0_end, y_t)
           /\ y_nh' = SummedHarmonics(f0_start, f0_end, y_t)
    /\ y_advanced' = (y_advanced \/ y_phases' # y_phases)
    /\ y_samples' = y_samples + 1
    /\ IF y_t + 1 < HOP_SIZE
       THEN y_t' = y_t + 1 /\ UNCHANGED <<y_pc, y_f_idx>>
       ELSE y_t' = 0 /\ y_f_idx' = y_f_idx + 1 /\ y_pc' = "frame"
    /\ UNCHANGED y_f0
    /\ UNCHANGED <<tlVars, parseVars, cacheVars, runVars, sigVars, fnVars>>

\* synthesis.rs:80  the f_idx loop ends
EndFrames ==
    /\ y_pc = "frame"
    /\ y_f_idx + 1 >= Len(y_f0)
    /\ y_pc' = "normalise"
    /\ UNCHANGED <<y_f0, y_f_idx, y_t, y_phases, y_w, y_nh, y_samples, y_advanced>>
    /\ UNCHANGED <<tlVars, parseVars, cacheVars, runVars, sigVars, fnVars>>

\* synthesis.rs:148-158  peak normalisation and truncation to
\* num_frames * hop_size samples; harmonic_phases is not touched
PeakNormalise ==
    /\ y_pc = "normalise"
    /\ y_samples' = Len(y_f0) * HOP_SIZE
    /\ y_pc' = "done"
    /\ UNCHANGED <<y_f0, y_f_idx, y_t, y_phases, y_w, y_nh, y_advanced>>
    /\ UNCHANGED <<tlVars, parseVars, cacheVars, runVars, sigVars, fnVars>>

SynthNext == EngineNew \/ BeginPair \/ SynthesizeSample \/ EndFrames \/ PeakNormalise

-----------------------------------------------------------------------------
(* The per-frame functions of the analysis (resampler.rs:72-91, dio.rs) and *)
(* of the render (resampler.rs:134, 145-157, 162-170), applied to bounded   *)
(* inputs.                                                                  *)

\* dio.rs:16, 53  the longest chunk handed to detect_pitch
DIO_WINDOW == 1024
\* dio.rs:24  chunk.len() < 512
DIO_MIN_CHUNK == 512

\* the longest period of a test signal, in samples
MaxPeriod == 12
\* the longest envelope row
MaxRowLen == 4

\* a test signal: `len` samples at `rate` Hz, one unit impulse every
\* `period` samples, of alternating sign when `alt`
Sample(sig, i) ==
    IF i % sig.period # 0 THEN 0
    ELSE IF sig.alt /\ (i \div sig.period) % 2 = 1 THEN 0 - 1 ELSE 1

\* dio.rs:31-34  corr: the sum of chunk[i] * chunk[i + lag] over
\* 0 <= i < chunk.len() - lag, for samples in {-1, 0, 1}
Corr(sig, start, clen, lag) ==
    LET prod(i) == Sample(sig, start + i) * Sample(sig, start + i + lag)
        is == 0..(clen - lag - 1)
    IN  Cardinality({i \in is : prod(i) = 1}) - Cardinality({i \in is : prod(i) = 0 - 1})

\* dio.rs:27-30  for lag in min_lag..max_lag { if lag >= chunk.len() { break; } ..
LagRange(rate, clen) ==
    {lag \in (rate \div 500)..((rate \div 50) - 1) : lag < clen}

\* dio.rs:23-45  detect_pitch: 0, or sample_rate / best_lag as a rational;
\* best_lag is the first lag whose sum is the largest, when that is positive
detect_pitch(sig, start, clen) ==
    IF clen < DIO_MIN_CHUNK THEN Rat(0, 1)
    ELSE LET lags == LagRange(sig.rate, clen)
             corr == [lag \in lags |-> Corr(sig, start, clen, lag)]
             good == {lag \in lags : corr[lag] > 0 /\ \A o \in lags : corr[o] <= corr[lag]}
         IN  IF good = {} THEN Rat(0, 1)
             ELSE LET best_lag == CHOOSE lag \in good : \A o \in good : lag <= o
                  IN  IF best_lag > 0 THEN Rat(sig.rate, best_lag) ELSE Rat(0, 1)

\* dio.rs:15-17  the chunk of frame i (0-based): its start and its length
ChunkStart(i) == i * DIO_HOP
ChunkLen(len, i) == Min2(ChunkStart(i) + DIO_WINDOW, len) - ChunkStart(i)

\* dio.rs:47-58  stonemask: a value at or below 40 Hz is kept, any other is
\* replaced by refine_local's pick among the five candidates around it
stonemask(f0) ==
    [i \in DOMAIN f0 |->
        IF RLeq(f0[i], Rat(40, 1)) THEN [refined |-> FALSE, around |-> f0[i]]
        ELSE [refined |-> TRUE, around |-> f0[i]]]

\* dio.rs:10-21  estimate: the values of detect_pitch, and what stonemask
\* returns
estimate(sig) ==
    LET num_frames == DioFrames(sig.len)
        f0 == [k \in 1..num_frames |->
                  detect_pitch(sig, ChunkStart(k - 1), ChunkLen(sig.len, k - 1))]
    IN  [raw |-> f0, f0 |-> stonemask(f0)]

\* resampler.rs:72-91  the source window each stored value of a fresh
\* analysis starts at: f0[i] at i * 256 (dio.rs:15), spec[i] and ap[i] at
\* i * hop_size (resampler.rs:85)
AnalysisWindows(len, rate) ==
    LET n == AnalysisFrameCount(len, rate)
    IN  [f0 |-> [k \in 1..n |-> ChunkStart(k - 1)],
         spec |-> [k \in 1..n |-> (k - 1) * HopSize(rate)],
         ap |-> [k \in 1..n |-> (k - 1) * HopSize(rate)]]

\* util.rs:129  lerp(a, b, t) = a * (1 - t) + b * t, t a rational
RLerp(a, b, w) == Rat(a * (w[2] - w[1]) + b * w[1], w[2])

\* resampler.rs:146  shift = (gender / 120).exp2(), for the genders whose
\* shift is a rational number
GenderShift(gender) ==
    CASE gender = 0 - 120 -> Rat(1, 2)
      [] gender = 0 -> Rat(1, 1)
      [] gender = 120 -> Rat(2, 1)

\* resampler.rs:145-156  one envelope row under the gender flag; bins are
\* 0-based in the program, 1-based here
gender_row(orig, gender) ==
    IF gender = 0 THEN [i \in DOMAIN orig |-> Rat(orig[i], 1)]
    ELSE LET shift == GenderShift(gender)
             len == Len(orig)
         IN  [k \in 1..len |->
                LET s_idx == Rat((k - 1) * shift[1], shift[2])
                    i0 == RFloor(s_idx)
                    i1 == Min2(i0 + 1, len - 1)
                IN  IF i0 < len
                    THEN RLerp(orig[i0 + 1], orig[i1 + 1], Rat(s_idx[1] - i0 * s_idx[2], s_idx[2]))
                    ELSE Rat(0, 1)]

\* resampler.rs:134  vuv_render: features.f0[t as usize] != 0.0
vuv_render(f0, tpos) == f0[AsUsize(tpos) + 1] # 0

\* resampler.rs:162-170  f0_render[i]: 0.0 for an unvoiced frame, otherwise
\* midi_to_hz of pitch + bend + offset * modulation, a positive frequency
f0_render(f0, tpos) ==
    IF ~vuv_render(f0, tpos) THEN "zero" ELSE "midi_to_hz"

DioRates == {500}
DioLens == {0, 300, 512, 1100}
DioInputs ==
    [rate : DioRates, len : DioLens, period : 1..MaxPeriod, alt : BOOLEAN]

WindowRates == {44100, 48000, 51200}
WindowInputs == [len : {DIO_HOP * k : k \in 0..4}, rate : WindowRates]

RowValues == {0, 1, 4}
GenderInputs ==
    [row : UNION {[1..n -> RowValues] : n \in 1..MaxRowLen}, gender : {0 - 120, 0, 120}]

\* source pitch tracks of three frames and timeline positions in thirds of
\* a frame within [0, f0_len - 1]
RenderTracks == [1..3 -> {0, 100}]
RenderPositions == {Rat(q, 3) : q \in 0..6}
RenderInputs == [f0 : RenderTracks, t : RenderPositions]

FramesIdle == x_pc = "idle" /\ x_fn = "none" /\ x_in = <<>> /\ x_out = <<>>

FramesInit ==
    /\ x_pc = "input"
    /\ x_out = <<>>
    /\ \/ x_fn = "estimate" /\ x_in \in DioInputs
       \/ x_fn = "analysis" /\ x_in \in WindowInputs
       \/ x_fn = "gender" /\ x_in \in GenderInputs
       \/ x_fn = "f0_render" /\ x_in \in RenderInputs

\* resampler.rs:80  vocoder.f0_estimator.estimate(input_samples)
DioEstimate ==
    /\ x_pc = "input" /\ x_fn = "estimate"
    /\ x_out' = estimate(x_in)
    /\ x_pc' = "done"
    /\ UNCHANGED <<x_fn, x_in>>
    /\ UNCHANGED <<tlVars, parseVars, cacheVars, runVars, sigVars, synVars>>

\* resampler.rs:72-91  the analysis loop
AnalyseFrames ==
    /\ x_pc = "input" /\ x_fn = "analysis"
    /\ x_out' = AnalysisWindows(x_in.len, x_in.rate)
    /\ x_pc' = "done"
    /\ UNCHANGED <<x_fn, x_in>>
    /\ UNCHANGED <<tlVars, parseVars, cacheVars, runVars, sigVars, synVars>>

\* resampler.rs:145-157  the gender flag applied to one row
ShiftRow ==
    /\ x_pc = "input" /\ x_fn = "gender"
    /\ x_out' = gender_row(x_in.row, x_in.gender)
    /\ x_pc' = "done"
    /\ UNCHANGED <<x_fn, x_in>>
    /\ UNCHANGED <<tlVars, parseVars, cacheVars, runVars, sigVars, synVars>>

\* resampler.rs:134, 162-170  one frame of f0_render
RenderPitch ==
    /\ x_pc = "input" /\ x_fn = "f0_render"
    /\ x_out' = f0_render(x_in.f0, x_in.t)
    /\ x_pc' = "done"
    /\ UNCHANGED <<x_fn, x_in>>
    /\ UNCHANGED <<tlVars, parseVars, cacheVars, runVars, sigVars, synVars>>

FramesNext == DioEstimate \/ AnalyseFrames \/ ShiftRow \/ RenderPitch

LaterIdle == RunIdle /\ SignalIdle /\ SynthIdle /\ FramesIdle

InitCache == CacheInit /\ TimelineIdle /\ overflow_checks = FALSE /\ ParseIdle /\ LaterIdle

SpecCache == InitCache /\ [][CacheNext]_vars

InitRace == RaceInit /\ TimelineIdle /\ overflow_checks = FALSE /\ ParseIdle /\ LaterIdle

SpecRace == InitRace /\ [][RaceNext]_vars

InitParse == ParseInit /\ TimelineIdle /\ CacheIdle /\ LaterIdle

SpecParse == InitParse /\ [][ParseNext]_vars

InitTimeline == TimelineInit /\ ParseIdle /\ CacheIdle /\ LaterIdle

SpecTimeline == InitTimeline /\ [][TimelineNext]_vars

InitRun ==
    RunInit /\ TimelineIdle /\ overflow_checks = FALSE /\ ParseIdle /\ CacheIdle /\ SignalIdle
    /\ SynthIdle /\ FramesIdle

SpecRun == InitRun /\ [][RunNext]_vars

InitSignal ==
    SignalInit /\ TimelineIdle /\ overflow_checks = FALSE /\ ParseIdle /\ CacheIdle /\ RunIdle
    /\ SynthIdle /\ FramesIdle

SpecSignal == InitSignal /\ [][SignalNext]_vars

InitSynth ==
    SynthInit /\ TimelineIdle /\ overflow_checks = FALSE /\ ParseIdle /\ CacheIdle /\ RunIdle
    /\ SignalIdle /\ FramesIdle

SpecSynth == InitSynth /\ [][SynthNext]_vars

InitFrames ==
    FramesInit /\ TimelineIdle /\ overflow_checks = FALSE /\ ParseIdle /\ CacheIdle /\ RunIdle
    /\ SignalIdle /\ SynthIdle

SpecFrames == InitFrames /\ [][FramesNext]_vars

-----------------------------------------------------------------------------
(* Claims about the render timeline *)

TimelineBuilt == tl_pc \in {"built", "done"}

\* C1: with at least one frame, every value of the render timeline lies in
\* [0, frameCount-1], and the interpolation indices floor(t) and
\* min(floor(t)+1, frameCount-1) are valid frame indices.
C1_TimelineInRange ==
    (f0_len >= 1) =>
        /\ tl_pc # "panic"
        /\ TimelineBuilt =>
              \A i \in 1..Len(t_render) :
                  /\ RLeq(Rat(0, 1), t_render[i])
                  /\ RLeq(t_render[i], Rat(f0_len - 1, 1))
        /\ (tl_pc = "done") =>
              /\ Len(interp) = Len(t_render)
              /\ \A i \in 1..Len(interp) :
                    /\ interp[i][1] \in 0..(f0_len - 1)
                    /\ interp[i][2] \in 0..(f0_len - 1)

\* C1 witness: a finished timeline holding a position clamped at the top, a
\* position clamped at 0 and a fractional position.
C1_Witness ==
    /\ tl_pc = "done"
    /\ f0_len >= 2
    /\ args.offset < 0
    /\ \E i \in 1..Len(t_render) :
          /\ REq(t_render[i], Rat(f0_len - 1, 1))
          /\ RLt(Rat((f0_len - 1) * FRAME_PERIOD, 1), (t_consonant \o t_stretch)[i])
    /\ \E i \in 1..Len(t_render) :
          /\ REq(t_render[i], Rat(0, 1))
          /\ RLt((t_consonant \o t_stretch)[i], Rat(0, 1))
    /\ \E i \in 1..Len(t_render) : ~RIsInt(t_render[i])

\* C2 (as claimed): the render timeline is monotonically non-decreasing for
\* every combination of note parameters (feature sets with at least one frame).
C2_TimelineMonotone ==
    (TimelineBuilt /\ f0_len >= 1) =>
        \A i \in 1..(Len(t_render) - 1) : RLeq(t_render[i], t_render[i + 1])

\* C3 (as claimed): building the timeline and resampling along it never
\* panics, also for a feature set with zero frames.
C3_NeverFails == tl_pc # "panic"

\* C4 (as claimed): in the stretch branch the sustain segment has exactly
\* round(targetLength x framesPerSecond) positions, the first equal to
\* consonantSourceTime and the last equal to end.
C4_StretchAsClaimed ==
    (TimelineBuilt /\ branch = "stretch" /\ f0_len >= 1) =>
        /\ Len(t_stretch) = RRound(Rat(args.length, FRAME_PERIOD))
        /\ Len(t_stretch) >= 1 =>
              /\ REq(t_stretch[1], Rat(ConsonantSrcMs(args), 1))
              /\ REq(t_stretch[Len(t_stretch)], Rat(EndMs(args, f0_len), 1))

\* C4 (amended): in the stretch branch (end - consonantSourceTime not greater
\* than the target length) the sustain segment has exactly
\* trunc(targetLength x framesPerSecond) positions; consecutive positions are
\* equally spaced; the first is consonantSourceTime whenever there is one, and
\* the last is end whenever there are at least two.
C4_StretchTruncCount ==
    (TimelineBuilt /\ branch = "stretch") =>
        LET n == Len(t_stretch)
            cs == ConsonantSrcMs(args)
            e == EndMs(args, f0_len)
        IN  /\ e - cs <= args.length
            /\ n = (IF args.length <= 0 THEN 0 ELSE args.length \div FRAME_PERIOD)
            /\ n >= 1 => REq(t_stretch[1], Rat(cs, 1))
            /\ n >= 2 => REq(t_stretch[n], Rat(e, 1))
            /\ \A i \in 1..(n - 1) :
                  \* t[i+1] - t[i] = (end - cs) / (n - 1)
                  (t_stretch[i + 1][1] * t_stretch[i][2] - t_stretch[i][1] * t_stretch[i + 1][2])
                      * (n - 1)
                  = (e - cs) * t_stretch[i][2] * t_stretch[i + 1][2]

\* C4 witness: a stretched sustain segment of at least three positions over a
\* region of positive length.
C4_Witness ==
    /\ TimelineBuilt /\ branch = "stretch"
    /\ Len(t_stretch) >= 3
    /\ EndMs(args, f0_len) > ConsonantSrcMs(args)

\* C5 (as claimed): in the truncate branch the sustain segment is a run of
\* round(targetLength x framesPerSecond) consecutive integer frame indices
\* starting at round(consonantSourceTime x framesPerSecond), each clamped to
\* the feature length.
C5_TruncateAsClaimed ==
    (TimelineBuilt /\ branch = "truncate" /\ f0_len >= 1) =>
        /\ Len(t_stretch) = RRound(Rat(args.length, FRAME_PERIOD))
        /\ \A i \in 1..Len(t_stretch) :
              REq(t_stretch[i],
                  Rat(FRAME_PERIOD * Min2(RRound(Rat(ConsonantSrcMs(args), FRAME_PERIOD)) + i - 1,
                                          f0_len - 1), 1))

\* C5 (amended): with at least one frame, whenever end - consonantSourceTime
\* exceeds the target length (in particular for offset = consonant = cutoff = 0
\* and a feature duration above the target length) the sustain segment is the
\* run of consecutive integer frame indices from c = trunc(consonantSourceTime
\* x framesPerSecond) (0 when negative) up to but excluding
\* min(c + trunc(targetLength x framesPerSecond), frameCount - 1): at most
\* trunc(targetLength x framesPerSecond) positions, none fractional.
C5_TruncateRun ==
    /\ (tl_pc # "args" /\ f0_len >= 1 /\ args.offset = 0 /\ args.consonant = 0
            /\ args.cutoff = 0 /\ f0_len * FRAME_PERIOD > args.length)
          => (branch = "truncate"
                /\ Len(t_stretch) = (IF args.length <= 0 THEN 0 ELSE args.length \div FRAME_PERIOD))
    /\ (tl_pc # "args" /\ f0_len >= 1)
          => (branch = "truncate" <=>
                EndMs(args, f0_len) - ConsonantSrcMs(args) > args.length)
    /\ (TimelineBuilt /\ branch = "truncate" /\ f0_len >= 1) =>
          LET cs == ConsonantSrcMs(args)
              c == IF cs <= 0 THEN 0 ELSE cs \div FRAME_PERIOD
              l == IF args.length <= 0 THEN 0 ELSE args.length \div FRAME_PERIOD
              hi == Min2(c + l, f0_len - 1)
          IN  /\ Len(t_stretch) = (IF hi > c THEN hi - c ELSE 0)
              /\ Len(t_stretch) <= l
              /\ \A i \in 1..Len(t_stretch) :
                    /\ t_stretch[i] = Rat(FRAME_PERIOD * (c + i - 1), 1)
                    /\ REq(t_render[Len(t_consonant) + i], Rat(c + i - 1, 1))

\* C5 witness: a truncated sustain segment that starts above frame 0 and whose
\* end was cut short by the feature length.
C5_Witness ==
    /\ TimelineBuilt /\ branch = "truncate" /\ f0_len >= 1
    /\ Len(t_stretch) >= 2
    /\ Len(t_stretch) < args.length \div FRAME_PERIOD
    /\ ConsonantSrcMs(args) > FRAME_PERIOD

-----------------------------------------------------------------------------
(* Claims about the parsers *)

ParseDone(fn) == p_pc = "done" /\ p_fn = fn

\* a signed decimal integer: an optional sign, then one or more digits
IsSignedInt(cs) ==
    LET body == IF cs # <<>> /\ cs[1] \in {"+", "-"} THEN Tail(cs) ELSE cs
    IN  body # <<>> /\ \A i \in DOMAIN body : IsDigit(body[i])
SignedIntValue(cs) ==
    IF cs[1] = "-" THEN 0 - DigitsValue(Tail(cs), 0)
    ELSE IF cs[1] = "+" THEN DigitsValue(Tail(cs), 0)
    ELSE DigitsValue(cs, 0)

NoteLetters == {"A", "B", "C", "D", "E", "F", "G", "a", "b", "c", "d", "e", "f", "g"}
NameHasAccidental(cs) == Len(cs) >= 2 /\ cs[2] \in {"#", "b"}
NameOctaveText(cs) == Tail2(cs, IF NameHasAccidental(cs) THEN 3 ELSE 2)
\* letter A-G in either case, optional '#' or 'b', signed integer octave
IsNoteName(cs) ==
    /\ cs # <<>>
    /\ cs[1] \in NoteLetters
    /\ IsSignedInt(NameOctaveText(cs))
NameSemitone(cs) ==
    LET l == ToAsciiUpper(cs[1])
        base == CASE l = "C" -> 0 [] l = "D" -> 2 [] l = "E" -> 4 [] l = "F" -> 5
                  [] l = "G" -> 7 [] l = "A" -> 9 [] l = "B" -> 11
    IN  IF ~NameHasAccidental(cs) THEN base
        ELSE IF cs[2] = "#" THEN base + 1 ELSE base - 1

\* C6 (as claimed): pitch_parser maps every note name to
\* (octave+1)*12 + semitone(letter) +/- accidental, returns every decimal
\* integer string as that integer, and reports the empty string, a missing
\* octave and an unknown letter as errors.
C6_PitchParser ==
    ParseDone("pitch_parser") =>
        /\ IsNoteName(p_in) =>
              /\ p_out.kind = "ok"
              /\ (p_out.v - NameSemitone(p_in)) % 12 = 0
              /\ (p_out.v - NameSemitone(p_in)) \div 12 = SignedIntValue(NameOctaveText(p_in)) + 1
        /\ IsSignedInt(p_in) => (p_out.kind = "ok" /\ p_out.v = SignedIntValue(p_in))
        /\ p_in = <<>> => p_out.kind = "err"
        /\ (p_in # <<>> /\ p_in[1] \in NoteLetters /\ NameOctaveText(p_in) = <<>>)
              => p_out.kind = "err"
        /\ (p_in # <<>> /\ (IsUpper(p_in[1]) \/ IsLower(p_in[1])) /\ p_in[1] \notin NoteLetters)
              => p_out.kind = "err"

\* C7 (as claimed): every Ok result of tempo_parser is a positive number.
C7_TempoPositive ==
    ParseDone("tempo_parser") =>
        (p_out.kind = "ok" => F64GtZero(p_out.v))

\* the positions of the '#' separators and the segments between them
HashPos(cs) == {i \in DOMAIN cs : cs[i] = "#"}
NumSegments(cs) == Cardinality(HashPos(cs)) + 1
\* the position of the j-th separator (0 for j = 0, Len + 1 after the last)
SeparatorAt(cs, j) ==
    IF j = 0 THEN 0
    ELSE IF j > Cardinality(HashPos(cs)) THEN Len(cs) + 1
    ELSE CHOOSE h \in HashPos(cs) : Cardinality({g \in HashPos(cs) : g <= h}) = j
\* segment j, counted from 0
Segment(cs, j) == SubSeq(cs, SeparatorAt(cs, j) + 1, SeparatorAt(cs, j + 1) - 1)
IsDecimalCount(seg) ==
    LET body == IF seg # <<>> /\ seg[1] = "+" THEN Tail(seg) ELSE seg
    IN  body # <<>> /\ \A i \in DOMAIN body : IsDigit(body[i])
CountValue(seg) == DigitsValue(IF seg[1] = "+" THEN Tail(seg) ELSE seg, 0)
IsB64(c) == IsUpper(c) \/ IsLower(c) \/ IsDigit(c) \/ c \in {"+", "/"}
\* the number of samples the segments before segment j give
RECURSIVE SamplesBefore(_, _)
SamplesBefore(cs, j) ==
    IF j = 0 THEN 0
    ELSE LET before == SamplesBefore(cs, j - 1)
             seg == Segment(cs, j - 1)
         IN  before + (IF (j - 1) % 2 = 0 THEN Len(seg) \div 2
                       ELSE IF IsDecimalCount(seg) /\ before > 0 THEN CountValue(seg)
                       ELSE 0)
\* the value claimed for a pair of base64 characters, in hundredths
ClaimedPairValue(c1, c2) ==
    LET v == 64 * B64Val(c1) + B64Val(c2)
    IN  IF v > 2047 THEN v - 4096 ELSE v
\* the last complete pair of the even segments before segment j
LastPairBefore(cs, j) ==
    LET e == CHOOSE i \in 0..(j - 1) :
                 /\ i % 2 = 0 /\ Len(Segment(cs, i)) >= 2
                 /\ \A k \in (i + 1)..(j - 1) : k % 2 = 0 => Len(Segment(cs, k)) < 2
        seg == Segment(cs, e)
        m == Len(seg) \div 2
    IN  <<seg[2 * m - 1], seg[2 * m]>>

\* C8: decode_pitchbend gives one sample per complete pair of every
\* even-indexed segment, valued (64*v1 + v2, minus 4096 above 2047)/100 and so
\* within [-20.48, 20.47]; every odd-indexed segment that is a decimal count n
\* appends n copies of the most recently decoded sample, nothing when there is
\* none; the output length is the number of complete pairs plus the applied
\* counts ("AAAA" gives 2 zeros, "AAAA#2#" gives 4 zeros).
C8_DecodePitchbend ==
    ParseDone("decode_pitchbend") =>
        LET out == p_out.v
        IN  /\ Len(out) = SamplesBefore(p_in, NumSegments(p_in))
            /\ \A i \in DOMAIN out : out[i] >= 0 - 2048 /\ out[i] <= 2047
            /\ \A j \in 0..(NumSegments(p_in) - 1) :
                  LET seg == Segment(p_in, j)
                      at == SamplesBefore(p_in, j)
                  IN  IF j % 2 = 0
                      THEN \A m \in 1..(Len(seg) \div 2) :
                               (IsB64(seg[2 * m - 1]) /\ IsB64(seg[2 * m]))
                                   => out[at + m] = ClaimedPairValue(seg[2 * m - 1], seg[2 * m])
                      ELSE (IsDecimalCount(seg) /\ at > 0) =>
                               \A m \in 1..CountValue(seg) :
                                   LET pr == LastPairBefore(p_in, j)
                                   IN  (IsB64(pr[1]) /\ IsB64(pr[2]))
                                           => out[at + m] = ClaimedPairValue(pr[1], pr[2])
            /\ p_in = <<"A", "A", "A", "A">> => out = <<0, 0>>
            /\ p_in = <<"A", "A", "A", "A", "#", "2", "#">> => out = <<0, 0, 0, 0>>

\* C8 witness: a negative sample repeated by a count, after a segment that
\* held no complete pair.
C8_Witness ==
    /\ ParseDone("decode_pitchbend")
    /\ NumSegments(p_in) >= 2
    /\ IsDecimalCount(Segment(p_in, 1))
    /\ CountValue(Segment(p_in, 1)) >= 2
    /\ Len(p_out.v) = 1 + CountValue(Segment(p_in, 1))
    /\ p_out.v[Len(p_out.v)] < 0

\* the text after position i made of ASCII digits, '-' and '.'
RECURSIVE NumberRunEnd(_, _)
NumberRunEnd(cs, i) ==
    IF i < Len(cs) /\ (IsDigit(cs[i + 1]) \/ cs[i + 1] \in {"-", "."})
    THEN NumberRunEnd(cs, i + 1) ELSE i
NumberAfter(cs, i) == ParseF64(SubSeq(cs, i + 1, NumberRunEnd(cs, i)))
\* the number of the last token whose letter is in `letters`, or `default`
LastTokenValue(cs, letters, default) ==
    LET t == RemoveSlashes(cs)
        toks == {i \in DOMAIN t : t[i] \in letters /\ NumberAfter(t, i).kind = "ok"}
    IN  IF toks = {} THEN default
        ELSE NumberAfter(t, CHOOSE i \in toks : \A k \in toks : k <= i).v

\* C9 (as claimed): parsing any flag string never fails; gender is the number
\* of the last g/G token or 0, breathiness the number of the last b/B token or
\* 50; every other character is skipped.
C9_FlagsFromStr ==
    ParseDone("Flags::from_str") =>
        /\ p_out.kind = "ok"
        /\ F64Eq(p_out.v.gender, LastTokenValue(p_in, {"g", "G"}, DefaultGender))
        /\ F64Eq(p_out.v.breathiness, LastTokenValue(p_in, {"b", "B"}, DefaultBreathiness))

-----------------------------------------------------------------------------
(* Claims about the analysis cache *)

UsesFeatures(p) == r_pc[p] \in {"features", "done"}

-----------------------------------------------------------------------------
(* Claims about one invocation *)

Has(name) == \E i \in DOMAIN m_trace : m_trace[i].ev = name
HasBefore(name, i) == \E j \in 1..(i - 1) : m_trace[j].ev = name
CalledBefore(name, k, i) == \E j \in 1..(i - 1) : m_trace[j] = HookCall(name, k, TRUE)
\* the steps whose failure ends the invocation before save_audio
FailsEarly(e) ==
    /\ ~e.ok
    /\ e.ev \in {"load_audio", "features", "timeline", "process_features", "process_audio"}
RenderComplete ==
    /\ Has("synthesize") /\ Has("apply_volume") /\ Has("apply_vocal_enhancement")
    /\ Has("return")

\* C11 as stated: the output file is written only after resample has returned
\* successfully; a failing run never creates it; a successful run writes it
\* exactly once, after synthesis and post-processing.
C11_OutputOnlyAfterResample ==
    /\ out_file.creates > 0 => Has("return")
    /\ (\E i \in DOMAIN m_trace : FailsEarly(m_trace[i])) => out_file = NoOutput
    /\ m_result = RunOk => out_file.creates = 1 /\ RenderComplete

\* C11: the output file is created only by save_audio, which is called after
\* resample has returned successfully or, without resample, for an input that
\* holds no samples; a run that fails before save_audio never creates the
\* file; a successful run creates and writes it exactly once, and when the
\* input held samples, after synthesis and post-processing; a failing
\* save_audio leaves no file or a partly written one.
C11_OutputOnlyBySave ==
    /\ out_file.creates <= 1
    /\ out_file.creates > 0 => Has("save_audio") /\ (Has("return") \/ ~Has("features"))
    /\ (\E i \in DOMAIN m_trace : FailsEarly(m_trace[i])) =>
           out_file = NoOutput /\ m_result.kind \in {"err", "panic"} /\ ~Has("save_audio")
    /\ m_result = RunOk =>
           /\ out_file = [creates |-> 1, state |-> "complete"]
           /\ Has("features") => RenderComplete
    /\ m_result = RunErr("save_audio", 0) => out_file.state \in {"untouched", "partial"}

C11_Witness ==
    /\ m_result = RunOk /\ RenderComplete /\ m_plugins = MaxPlugins
    /\ out_file = [creates |-> 1, state |-> "complete"]

\* C12: the feature hooks run in plugin order after timeline resampling, the
\* flag transforms and the pitch curve and before synthesis; the sample hooks
\* run in plugin order after synthesis; synthesis runs only when every feature
\* hook has returned Ok and the later stages only when every sample hook has;
\* a failing hook is the last step of the render, whose result is its error.
C12_HooksInOrder ==
    \A i \in DOMAIN m_trace :
        LET e == m_trace[i]
        IN  /\ e.ev = "process_features" =>
                 /\ e.k \in 1..m_plugins
                 /\ HasBefore("timeline", i) /\ HasBefore("gender", i)
                 /\ HasBefore("pitch", i) /\ HasBefore("breathiness", i)
                 /\ ~HasBefore("synthesize", i)
                 /\ IF e.k = 1 THEN m_trace[i - 1].ev = "breathiness"
                    ELSE m_trace[i - 1] = HookCall("process_features", e.k - 1, TRUE)
            /\ e.ev = "process_audio" =>
                 /\ e.k \in 1..m_plugins
                 /\ IF e.k = 1 THEN m_trace[i - 1].ev = "synthesize"
                    ELSE m_trace[i - 1] = HookCall("process_audio", e.k - 1, TRUE)
            /\ e.ev \in {"smooth_spectrum", "synthesize"} =>
                 \A k \in 1..m_plugins : CalledBefore("process_features", k, i)
            /\ e.ev \in {"apply_volume", "return", "save_audio"} /\ Has("synthesize") =>
                 \A k \in 1..m_plugins : CalledBefore("process_audio", k, i)
            /\ e.ev \in {"process_features", "process_audio"} /\ ~e.ok =>
                 /\ i = Len(m_trace)
                 /\ m_result = RunErr(e.ev, e.k)
                 /\ m_pc = "failed"

C12_Witness ==
    /\ m_plugins = MaxPlugins
    /\ m_result = RunErr("process_audio", MaxPlugins)
    /\ \A k \in 1..MaxPlugins : \E i \in DOMAIN m_trace : m_trace[i] = HookCall("process_features", k, TRUE)

\* C13 as stated: when the construction of a filter's coefficients fails, the
\* render still succeeds and the samples are as they were before the
\* enhancement: no filter and no saturation has been applied.
C13_FailedEnhancementIsSkipped ==
    Has("apply_vocal_enhancement") /\ m_coeff_failed =>
        /\ m_buf = m_buf_pre
        /\ m_result.kind \notin {"err", "panic"}

\* C19 as stated: the envelope and aperiodicity rows given to
\* StydlEngine::synthesize are the rows the feature hooks left.
C19_SynthesisUsesHookRows ==
    Has("synthesize") => m_syn_spec = m_hook_spec /\ m_syn_ap = m_hook_ap

-----------------------------------------------------------------------------
(* Claims about smooth_f0 and write_wav *)

SmoothDone == g_pc = "done" /\ g_fn = "smooth_f0"
WavDone == g_pc = "done" /\ g_fn = "write_wav"

\* frame i is below the floor and both its neighbours are at or above it
IsolatedGap(f, i) ==
    /\ 1 < i /\ i < Len(f)
    /\ f[i] < 40 /\ f[i - 1] >= 40 /\ f[i + 1] >= 40

\* C14 as stated: the output at an isolated gap between two frames at or above
\* the 40 Hz floor is positive (the interpolated pitch).
C14_IsolatedGapFilled ==
    SmoothDone =>
        \A i \in DOMAIN g_f0 : IsolatedGap(g_f0, i) => RLt(Rat(0, 1), g_smoothed[i])

\* the other frames within radius 2 of frame i
Neighbours(f, i) == {j \in DOMAIN f : j # i /\ j - i <= 2 /\ i - j <= 2}
AllVoiced(f) == \A j \in DOMAIN f : f[j] >= 40
\* frame i is an outlier (more than 50 Hz away) among neighbours that all hold s
SpikeAt(f, i, s) ==
    /\ AllVoiced(f)
    /\ Neighbours(f, i) # {}
    /\ \A j \in Neighbours(f, i) : f[j] = s
    /\ f[i] - s > 50 \/ s - f[i] > 50

\* C15 as stated: same length; all-zero stays all-zero; the output at an
\* outlier frame whose neighbours within radius 2 share a value is that value.
C15_SpikeRemovedAsClaimed ==
    SmoothDone =>
        /\ Len(g_smoothed) = Len(g_f0)
        /\ (\A j \in DOMAIN g_f0 : g_f0[j] = 0) => \A j \in DOMAIN g_f0 : REq(g_smoothed[j], Rat(0, 1))
        /\ \A i \in DOMAIN g_f0 : \A s \in F0Values :
               SpikeAt(g_f0, i, s) => REq(g_smoothed[i], Rat(s, 1))

\* C15: same length; all-zero stays all-zero; in an all-voiced sequence the
\* output at an outlier frame is the value its neighbours within radius 2
\* share when there are at least two such neighbours; with a single
\* neighbour it is the larger of the two frames.
C15_SpikeRemoved ==
    SmoothDone =>
        /\ Len(g_smoothed) = Len(g_f0)
        /\ (\A j \in DOMAIN g_f0 : g_f0[j] = 0) => \A j \in DOMAIN g_f0 : REq(g_smoothed[j], Rat(0, 1))
        /\ \A i \in DOMAIN g_f0 : \A s \in F0Values :
               SpikeAt(g_f0, i, s) =>
                   IF Cardinality(Neighbours(g_f0, i)) >= 2
                   THEN REq(g_smoothed[i], Rat(s, 1))
                   ELSE REq(g_smoothed[i], Rat(IF g_f0[i] > s THEN g_f0[i] ELSE s, 1))

C15_Witness ==
    /\ SmoothDone
    /\ \E i \in DOMAIN g_f0 :
          /\ SpikeAt(g_f0, i, 200) /\ g_f0[i] = 800
          /\ Cardinality(Neighbours(g_f0, i)) = 4
          /\ REq(g_smoothed[i], Rat(200, 1))

\* clamp(x, -1, 1) * 32767 truncated toward zero, for a sample that is a number
ClaimedPcm(x) ==
    IF x.k = "inf" \/ x.n >= x.d
    THEN IF x.neg THEN 0 - 32767 ELSE 32767
    ELSE IF x.neg THEN 0 - ((x.n * 32767) \div x.d) ELSE (x.n * 32767) \div x.d

\* C16: every sample that is a number is written as
\* trunc(clamp(x, -1, 1) * 32767); every written value, also that of a NaN,
\* lies in [-32767, 32767]; one word is written per sample, and a single zero
\* word for an empty sample sequence.
C16_WavSamples ==
    WavDone =>
        /\ g_samples = <<>> => g_file.words = <<0>>
        /\ g_samples # <<>> =>
              /\ Len(g_file.words) = Len(g_samples)
              /\ \A i \in DOMAIN g_samples :
                    /\ g_file.words[i] \in (0 - 32767)..32767
                    /\ g_samples[i].k # "nan" => g_file.words[i] = ClaimedPcm(g_samples[i])

C16_Witness ==
    /\ WavDone
    /\ g_samples = <<FNum(TRUE, 1, 2), FNum(FALSE, 3, 1)>>
    /\ g_file.words = <<0 - 16383, 32767>>

-----------------------------------------------------------------------------
(* Claims about concurrent renders *)

\* C18 as stated: renders of one source started with no sidecar present all
\* complete successfully under every interleaving, and once all have finished
\* the sidecar holds the complete record a single render would have written.
C18_ConcurrentRendersSucceed ==
    /\ \A p \in Procs : r_pc[p] # "failed"
    /\ (\A p \in Procs : r_pc[p] = "done") => sidecar = File(Serialize(Analyse(source)))

-----------------------------------------------------------------------------
(* Claims about StydlEngine *)

\* the harmonic stream of engine e at the last sample: 0.0 (no term), or
\* the sum over the harmonics of a positive weight times the sine of the
\* accumulator, held as the accumulators it is the sum over
VoicedSample(e) ==
    [w |-> y_w, terms |-> [k \in 1..y_nh |-> y_phases[e][k % NUM_PHASES]]]

SampleWritten == y_pc \in {"sample", "frame"} /\ y_samples > 0

\* C17: two renders with identical arguments, identical features and
\* identical noise draws have sample-for-sample identical voiced (harmonic)
\* streams: randomness enters only through the noise-grain phases.
C17_VoicedStreamsIdentical ==
    SampleWritten => VoicedSample(1) = VoicedSample(2)

\* the interpolated F0 of the sample about to be rendered, in 1/HOP_SIZE Hz
InterpolatedF0 ==
    y_f0[y_f_idx + 1] * (HOP_SIZE - y_t) + y_f0[y_f_idx + 2] * y_t

Nyquist == SynRate \div 2

\* min(512, floor(nyquist / F0)) for the sample about to be rendered
TopHarmonic == Min2(512, (Nyquist * HOP_SIZE) \div InterpolatedF0)

BothZero == y_f0[y_f_idx + 1] = 0 /\ y_f0[y_f_idx + 2] = 0

\* C20: after construction, accumulator k is only ever changed by adding
\* 2*pi*k*F0/sampleRate modulo 2*pi, on a sample whose interpolated F0 is
\* voiced (above 40 Hz) and for k from 1 to min(512, floor(nyquist/F0)); it
\* is never reset or reassigned; on every sample of a frame pair whose two
\* F0 values are both 0 all accumulators are left unchanged and the
\* harmonic stream contributes exactly 0.
C20_PhaseAccumulators ==
    [][y_pc # "new" =>
        /\ LET F0 == IF y_pc = "sample" THEN InterpolatedF0 ELSE 0
               top == IF F0 > 40 * HOP_SIZE THEN TopHarmonic ELSE 0
           IN  \A e \in Engines : \A k \in 0..(NUM_PHASES - 1) :
                  \/ y_phases'[e][k] = y_phases[e][k]
                  \/ /\ y_pc = "sample"
                     /\ F0 > 40 * HOP_SIZE
                     /\ k >= 1 /\ k <= top
                     /\ y_phases'[e][k] = (y_phases[e][k] + k * F0) % PhaseUnit
        /\ (y_pc = "sample" /\ BothZero) =>
              /\ y_phases' = y_phases
              /\ y_nh' = 0]_vars

\* a sample of a both-zero pair has been rendered by engines whose
\* accumulators an earlier, voiced pair advanced
C20_Witness ==
    /\ y_pc = "sample" /\ y_t > 0 /\ BothZero
    /\ y_advanced /\ y_nh = 0

-----------------------------------------------------------------------------
(* Claims about VoicingHmm::decode, the median filter and the WAV header *)

\* f0_smooth as the per-frame threshold leaves it: a frame below the floor
\* is zero
Floored(f) == [i \in DOMAIN f |-> IF f[i] >= 40 THEN Rat(f[i], 1) ELSE Rat(0, 1)]

\* the frames within radius 2 of frame i that lie in the same contiguous
\* positive run as frame i
SameRun(f, i) ==
    {j \in DOMAIN f :
        /\ j - i <= 2 /\ i - j <= 2
        /\ \A k \in DOMAIN f : (Min2(i, j) <= k /\ k <= Min2(0 - i, 0 - j) * (0 - 1)) =>
              RLt(Rat(0, 1), f[k])}

\* the median (element len / 2 of the sorted values) of frame i's run
RunMedian(f, i) ==
    LET js == SameRun(f, i)
        window == SelectSeq([k \in DOMAIN f |-> IF k \in js THEN f[k] ELSE Rat(0, 1)],
                            LAMBDA v : RLt(Rat(0, 1), v))
    IN  SortedAt(window, Len(window) \div 2)

\* C24 as stated: the median filter leaves zero frames zero and positive
\* frames positive, and replaces each positive frame by the median of the
\* positive values within radius 2 of its own contiguous positive run.
C24_MedianWithinRun ==
    SmoothDone =>
        \A i \in DOMAIN g_f0 :
            LET f == Floored(g_f0)
            IN  IF REq(f[i], Rat(0, 1)) THEN REq(g_smoothed[i], Rat(0, 1))
                ELSE /\ RLt(Rat(0, 1), g_smoothed[i])
                     /\ REq(g_smoothed[i], RunMedian(f, i))

\* the initial score of a state at frame 0: -0.3 when the state matches the
\* observation, -2.0 otherwise
InitialScore(f0, s) ==
    IF (s = 1) = (f0 >= 40) THEN 0 - 300000 ELSE 0 - 2000000

\* the total score of a state path q over the pitch sequence f
RECURSIVE PathScore(_, _, _)
PathScore(f, q, t) ==
    IF t = 1 THEN InitialScore(f[1], q[1]) + emission_log_prob(f[1], States[q[1]])
    ELSE PathScore(f, q, t - 1) + Transition(q[t - 1], q[t])
         + emission_log_prob(f[t], States[q[t]])

StateIndex(s) == IF s = "Voiced" THEN 1 ELSE 2

\* C25: decode returns a state path of the same length as the pitch
\* sequence whose total score (initial score, transitions, emissions) is
\* maximal among all 2^n voiced/unvoiced paths.
C25_DecodeIsViterbi ==
    SmoothDone =>
        /\ Len(g_voicing) = Len(g_f0)
        /\ g_f0 # <<>> =>
              LET n == Len(g_f0)
                  got == [t \in 1..n |-> StateIndex(g_voicing[t])]
              IN  \A q \in [1..n -> {1, 2}] :
                      PathScore(g_f0, q, n) <= PathScore(g_f0, got, n)

\* a sequence with a change of voicing in it has been decoded
C25_Witness ==
    /\ SmoothDone
    /\ g_f0 = <<200, 30, 200, 200, 0>>
    /\ g_voicing = <<"Voiced", "Unvoiced", "Voiced", "Voiced", "Unvoiced">>

C29_HeaderMatchesData ==
    WavDone =>
        /\ g_file.data_size = 2 * Len(g_file.words)
        /\ g_file.riff_size - 36 = 2 * Len(g_file.words)

-----------------------------------------------------------------------------
(* Claims about concurrent renders, continued *)

\* C28 as stated: a render that finds the sidecar existing always reads a
\* complete serialized record and never fails to deserialize it.
C28_ReaderSeesCompleteRecord ==
    \A p \in Procs :
        (r_cached[p] /\ r_pc[p] \in {"deserialize", "features", "done", "failed"}) =>
            /\ r_buf[p] = Serialize(Analyse(source))
            /\ r_pc[p] # "failed"

-----------------------------------------------------------------------------
(* Claims about the render timeline, continued *)

\* floor(2^(1 - velocity/100) * consonant / 5)
ClaimedConsonantCount ==
    LET r == VelocityRate(args.velocity)
    IN  RFloor(Rat(r[1] * args.consonant, r[2] * 5))

\* C23: the consonant segment has floor(2^(1 - velocity/100) * consonant / 5)
\* positions, evenly spaced from start, each in [start, consonantSourceTime);
\* they are a function of offset, consonant and velocity alone.  (Times in
\* milliseconds.)
C23_ConsonantSegment ==
    tl_pc \in {"built", "done", "panic"} =>
        LET n == ClaimedConsonantCount
        IN  /\ Len(t_consonant) = n
            /\ \A i \in 1..n :
                  /\ REq(t_consonant[i], Rat(args.offset * n + (i - 1) * args.consonant, n))
                  /\ RLeq(Rat(args.offset, 1), t_consonant[i])
                  /\ RLt(t_consonant[i], Rat(args.offset + args.consonant, 1))

\* a consonant segment of several positions, built for a note whose length
\* and cutoff are not the default
C23_Witness ==
    /\ tl_pc = "built"
    /\ Len(t_consonant) >= 3
    /\ args.length = 40 /\ args.cutoff = 0 - 30

-----------------------------------------------------------------------------
(* Claims about the per-frame functions *)

FnDone(fn) == x_pc = "done" /\ x_fn = fn

\* C21 as stated: the output F0 of a render frame is 0 exactly when the
\* source F0 at the rounded (nearest-integer) timeline position is 0, and a
\* positive frequency otherwise.
C21_VoicingAtRoundedPosition ==
    FnDone("f0_render") =>
        (x_out = "zero") <=> (x_in.f0[RRound(x_in.t) + 1] = 0)

\* the linear interpolation of a row at a position clamped to the last bin
ClampedLerp(orig, pos) ==
    LET last == Len(orig) - 1
        q == IF RLt(Rat(last, 1), pos) THEN Rat(last, 1) ELSE pos
        i0 == RFloor(q)
        i1 == Min2(i0 + 1, last)
    IN  RLerp(orig[i0 + 1], orig[i1 + 1], Rat(q[1] - i0 * q[2], q[2]))

\* C22 as stated: with a nonzero gender each row keeps its length and bin i
\* is the linear interpolation of the original row at i * 2^(gender/120),
\* positions beyond the last bin taking the last bin's value; with gender 0
\* the row is unchanged.
C22_GenderClampsToEdge ==
    FnDone("gender") =>
        LET orig == x_in.row
            shift == GenderShift(x_in.gender)
        IN  /\ Len(x_out) = Len(orig)
            /\ \A k \in DOMAIN orig :
                  IF x_in.gender = 0 THEN REq(x_out[k], Rat(orig[k], 1))
                  ELSE REq(x_out[k], ClampedLerp(orig, Rat((k - 1) * shift[1], shift[2])))

\* the lags of [sampleRate/500, sampleRate/50], both bounds included
ClaimedLags(rate) == (rate \div 500)..(rate \div 50)

\* C26 as stated: estimate returns floor(len/256) values; before refinement
\* each is sampleRate/bestLag for a lag of [sampleRate/500, sampleRate/50]
\* (both bounds included) with the maximum autocorrelation sum, or 0 when no
\* lag has a positive sum or the chunk is too short.
C26_LagSearchInclusive ==
    FnDone("estimate") =>
        /\ Len(x_out.f0) = x_in.len \div 256
        /\ Len(x_out.raw) = x_in.len \div 256
        /\ \A k \in DOMAIN x_out.raw :
              LET start == (k - 1) * 256
                  clen == Min2(start + 1024, x_in.len) - start
                  c(lag) == Corr(x_in, start, clen, lag)
                  lags == ClaimedLags(x_in.rate)
              IN  IF clen < 512 \/ \A lag \in lags : c(lag) <= 0
                  THEN REq(x_out.raw[k], Rat(0, 1))
                  ELSE \E lag \in lags :
                          /\ \A o \in lags : c(o) <= c(lag)
                          /\ REq(x_out.raw[k], Rat(x_in.rate, lag))

\* C30 as stated: in a fresh analysis the three sequences have equal length
\* and, for every frame i and every sample rate, the F0 value, the envelope
\* row and the aperiodicity row at index i are analysed from windows that
\* start at the same sample offset, i times the 5 ms frame hop.
C30_FramesAligned ==
    FnDone("analysis") =>
        /\ Len(x_out.f0) = Len(x_out.spec) /\ Len(x_out.spec) = Len(x_out.ap)
        /\ \A k \in DOMAIN x_out.f0 :
              /\ x_out.f0[k] = x_out.spec[k]
              /\ x_out.spec[k] = x_out.ap[k]
              /\ x_out.spec[k] * 1000 = (k - 1) * 5 * x_in.rate

====
